---- MODULE Spec2Model ----
(***************************************************************************)
(* A model of the SWD transfer engine of probe-rs                          *)
(* (probe-rs/src/probe/jlink/arm.rs): the rewriting of a logical batch of  *)
(* DAP transfers into the physical batch (perform_transfers), the parsing  *)
(* of an SWD response (parse_swd_response), and the WAIT / FAULT / line    *)
(* reset recovery of raw_read_register, raw_write_register, raw_read_block *)
(* and raw_write_block.                                                    *)
(***************************************************************************)
EXTENDS Integers, Sequences, FiniteSets, TLC

VARIABLES
    pc,               \* which program is run and where it stands
    transfers,        \* the logical batch of the latest perform_transfers call
    final_transfers,  \* the physical batch of the latest perform_transfers call
    result_indices,   \* result_indices of the latest perform_transfers call (0-based)
    pushed_at,        \* index (0-based) at which each logical transfer was pushed
    idle_arg,         \* the idle_cycles argument of the latest perform_transfers call
    response,         \* parse_swd_response: the sampled bits of one transfer
    direction,        \* parse_swd_response: the direction argument
    parsed,           \* parse_swd_response: the result
    stack,            \* the call stack of the L1 operation in progress
    call,             \* the L1 operation the caller invoked
    result,           \* what the call that finished last returned: to the frame
                      \* on top of the stack, or to the caller of the operation
    values,           \* raw_read_block / raw_write_block: the caller's buffer
    num_line_resets,  \* ProbeStatistics.num_line_resets
    num_io_calls,     \* ProbeStatistics.num_io_calls
    target,           \* how the target answers ("any", "always_wait", "never_ack")
    target_seed,      \* where in ReadValues the target's read values start
    bad_acks,         \* number of non-OK acknowledges the target has given
    ctrl_stat,        \* the value of the latest successful read of DP CTRL/STAT
    aborts,           \* the values successfully written to DP ABORT
    transferred,      \* block operations: succesful_transfers of the operation
    cm,               \* Cortex-M: the target's debug registers and the cached State
    cm_op,            \* Cortex-M: the latest operation, its result and its accesses
    a7,               \* ARMv7-A: the target's registers, the cached State and register_cache
    a7_op,            \* ARMv7-A: the latest operation and its result
    fl,               \* flash engine: the Flasher, the algorithm on the target, the calls made
    cf                \* target description: a chip family and what validate returned

vars == <<pc, transfers, final_transfers, result_indices, pushed_at, idle_arg,
          response, direction, parsed, stack, call, result, values,
          num_line_resets, num_io_calls, target, target_seed, bad_acks, ctrl_stat,
          aborts, transferred, cm, cm_op, a7, a7_op, fl, cf>>

cm_vars == <<cm, cm_op>>
a7_vars == <<a7, a7_op>>
host_vars == <<fl, cf>>
core_vars == <<cm_vars, a7_vars, host_vars>>
batch_vars == <<transfers, final_transfers, result_indices, pushed_at, idle_arg>>
parse_vars == <<response, direction, parsed>>
engine_vars == <<stack, call, result, values, num_line_resets, num_io_calls,
                 target, target_seed, bad_acks, ctrl_stat, aborts, transferred>>

----------------------------------------------------------------------------
(* Bounds of the model.                                                    *)

\* longest logical batch handed to perform_transfers directly
MaxBatch == 3
\* most non-OK acknowledges a target of kind "any" gives during one operation
MaxBadAcks == 3
\* longest block of raw_read_block / raw_write_block
MaxBlock == 2
\* deepest call stack explored (the recursion of the code is unbounded)
MaxDepth == 15

----------------------------------------------------------------------------
(* SwdSettings::default                                                    *)

num_idle_cycles_between_writes == 2
num_retries_after_wait == 1000
max_retry_idle_cycles_after_wait == 128
idle_cycles_before_write_verify == 8
idle_cycles_after_transfer == 8

active_protocol == "Swd"

----------------------------------------------------------------------------
(* DP register addresses and the bit fields of CTRL/STAT and ABORT         *)

Abort_ADDRESS == 0
DPIDR_ADDRESS == 0
Ctrl_ADDRESS == 4
RdBuff_ADDRESS == 12

STICKYORUN == 2
STICKYERR == 32
STKERRCLR == 4
ORUNERRCLR == 16

Bit(v, mask) == (v \div mask) % 2 = 1

Ctrl_sticky_orun(v) == Bit(v, STICKYORUN)
Ctrl_sticky_err(v) == Bit(v, STICKYERR)

\* Abort(0) with set_orunerrclr(orun) and set_stkerrclr(err)
AbortValue(orun, err) ==
    (IF orun THEN ORUNERRCLR ELSE 0) + (IF err THEN STKERRCLR ELSE 0)

Min(a, b) == IF a < b THEN a ELSE b
Max(a, b) == IF a > b THEN a ELSE b

----------------------------------------------------------------------------
(* DapTransfer                                                             *)

Failures == {"WaitResponse", "FaultResponse", "NoAcknowledge", "SwdProtocol",
             "IncorrectParity"}

DapTransfer_read(port, address) ==
    [port |-> port, address |-> address, direction |-> "Read", value |-> 0,
     status |-> "Pending", idle_cycles_after |-> 0]

DapTransfer_write(port, address, value) ==
    [port |-> port, address |-> address, direction |-> "Write", value |-> value,
     status |-> "Pending", idle_cycles_after |-> 0]

is_ap_read(t) == t.port = "AP" /\ t.direction = "Read"

is_write(t) == t.direction = "Write"

is_abort(t) ==
    t.port = "DP" /\ t.address = Abort_ADDRESS /\ t.direction = "Write"

is_rdbuff(t) ==
    t.port = "DP" /\ t.address = RdBuff_ADDRESS /\ t.direction = "Read"

----------------------------------------------------------------------------
(* parse_swd_response                                                      *)

RECURSIVE count_ones(_)
count_ones(v) == IF v = 0 THEN 0 ELSE (v % 2) + count_ones(v \div 2)

\* the 32 data bits, least significant first, as a number
RECURSIVE bits_to_byte(_)
bits_to_byte(bits) ==
    IF bits = <<>> THEN 0
    ELSE (IF Head(bits) THEN 1 ELSE 0) + 2 * bits_to_byte(Tail(bits))

\* a parity check that expects odd parity
parity_ok_Odd(value, parity_bit) == ((count_ones(value) % 2) = 0) = parity_bit

\* "Make sure the parity is correct."
parity_ok(value, parity_bit) == ((count_ones(value) % 2) = 1) = parity_bit

\* the decision of parse_swd_response on the acknowledge, data and parity bits
ParseFields(ack, value, parity_bit, dir) ==
    IF ack[1] /\ ack[2] /\ ack[3] THEN [ok |-> FALSE, err |-> "NoAcknowledge", value |-> 0]
    ELSE IF ack[2] THEN [ok |-> FALSE, err |-> "WaitResponse", value |-> 0]
    ELSE IF ack[3] THEN [ok |-> FALSE, err |-> "FaultResponse", value |-> 0]
    ELSE IF ack[1] THEN
        IF dir = "Read" THEN
            IF parity_ok(value, parity_bit)
            THEN [ok |-> TRUE, err |-> "none", value |-> value]
            ELSE [ok |-> FALSE, err |-> "IncorrectParity", value |-> 0]
        ELSE [ok |-> TRUE, err |-> "none", value |-> 0]
    ELSE [ok |-> FALSE, err |-> "SwdProtocol", value |-> 0]

ack_offset == 10

\* response is the bit sequence sampled for one transfer (1-based here)
parse_swd_response(resp, dir) ==
    LET ack == SubSeq(resp, ack_offset + 1, ack_offset + 3)
        read_value_offset == ack_offset + 3
        register_val == SubSeq(resp, read_value_offset + 1, read_value_offset + 32)
        parity_bit == resp[read_value_offset + 32 + 1]
    IN  ParseFields(ack, bits_to_byte(register_val), parity_bit, dir)

----------------------------------------------------------------------------
(* perform_transfers: logical batch -> physical batch                      *)

RdBuffRead == DapTransfer_read("DP", RdBuff_ADDRESS)

\* final_transfers.last_mut().idle_cycles_after += n (nothing when empty)
AddIdleToLast(final, n) ==
    IF final = <<>> THEN final
    ELSE [final EXCEPT ![Len(final)].idle_cycles_after = @ + n]

BuildInit ==
    [final |-> <<>>, result_indices |-> <<>>, pushed_at |-> <<>>,
     num_transfers |-> 0, need_ap_read |-> FALSE, buffered_write |-> FALSE,
     write_response_pending |-> FALSE]

\* a flush rule that forgets the read of CTRL/STAT
verify_sensitive_NoCtrlStat(t) ==
    \/ t.port = "DP" /\ t.address = Abort_ADDRESS /\ t.direction = "Write"
    \/ t.port = "DP" /\ t.address = DPIDR_ADDRESS /\ t.direction = "Read"

\* whether a buffered write has to be flushed before this transfer
verify_sensitive(t) ==
    LET abort_write == t.port = "DP" /\ t.address = Abort_ADDRESS /\ t.direction = "Write"
        dpidr_read == t.port = "DP" /\ t.address = DPIDR_ADDRESS /\ t.direction = "Read"
        ctrl_stat_read == t.port = "DP" /\ t.address = Ctrl_ADDRESS /\ t.direction = "Read"
    IN  abort_write \/ dpidr_read \/ ctrl_stat_read

\* what makes a write buffered: "Writes to the AP can be buffered"
is_buffered_write(t) == t.port = "AP" /\ t.direction = "Write"

\* a pending response that does not except the writes to ABORT
response_pending_AnyWrite(t) == is_write(t)

\* whether the response of the transfer is returned with the next transfer
response_pending(t) ==
    is_write(t) /\ ~(t.port = "DP" /\ t.address = Abort_ADDRESS)

\* a result index that ignores posted responses
ResultIndex_Own(protocol, need_ap_read, write_response_pending, num_transfers) ==
    num_transfers

\* the result index pushed for a transfer sitting at index num_transfers
ResultIndex(protocol, need_ap_read, write_response_pending, num_transfers) ==
    IF protocol = "Swd" /\ (need_ap_read \/ write_response_pending)
    THEN num_transfers + 1
    ELSE num_transfers

\* a collection rule that takes only reads for "not an AP read"
NeedsApFlush_ReadsOnly(need_ap_read, transfer) ==
    ~is_ap_read(transfer) /\ ~is_write(transfer) /\ need_ap_read

\* whether a read of RDBUFF is inserted to collect the pending AP read
NeedsApFlush(need_ap_read, transfer) == ~is_ap_read(transfer) /\ need_ap_read

\* one iteration of the loop over the logical transfers
BuildStep(acc, transfer, idle_cycles) ==
    LET ap_flush == NeedsApFlush(acc.need_ap_read, transfer)
        f1 == IF ap_flush THEN Append(acc.final, RdBuffRead) ELSE acc.final
        n1 == IF ap_flush THEN acc.num_transfers + 1 ELSE acc.num_transfers
        flush == acc.buffered_write /\ verify_sensitive(transfer)
        f2 == IF flush
              THEN Append(AddIdleToLast(f1, idle_cycles_before_write_verify), RdBuffRead)
              ELSE f1
        n2 == IF flush THEN n1 + 1 ELSE n1
        need == is_ap_read(transfer)
        pending == response_pending(transfer)
        pushed == IF is_write(transfer)
                  THEN [transfer EXCEPT !.idle_cycles_after = idle_cycles]
                  ELSE transfer
    IN  [final |-> Append(f2, pushed),
         result_indices |->
             Append(acc.result_indices, ResultIndex(active_protocol, need, pending, n2)),
         pushed_at |-> Append(acc.pushed_at, n2),
         num_transfers |-> n2 + 1,
         need_ap_read |-> need,
         buffered_write |-> is_buffered_write(transfer),
         write_response_pending |-> pending]

RECURSIVE BuildLoop(_, _, _)
BuildLoop(acc, ts, idle_cycles) ==
    IF ts = <<>> THEN acc
    ELSE BuildLoop(BuildStep(acc, Head(ts), idle_cycles), Tail(ts), idle_cycles)

\* a rule that appends the read of RDBUFF after an AP read only
NeedsFinalRead_ApOnly(need_ap_read, write_response_pending) == need_ap_read

\* whether a read of RDBUFF is appended after the loop
NeedsFinalRead(need_ap_read, write_response_pending) ==
    need_ap_read \/ write_response_pending

\* the read of RDBUFF appended after the loop
BuildTail(acc) ==
    IF NeedsFinalRead(acc.need_ap_read, acc.write_response_pending)
    THEN [acc EXCEPT
            !.final = Append(IF acc.write_response_pending
                             THEN AddIdleToLast(acc.final, idle_cycles_before_write_verify)
                             ELSE acc.final,
                             RdBuffRead),
            !.num_transfers = @ + 1]
    ELSE acc

\* the idle cycles added at the end of the batch
BuildIdle(acc) ==
    IF idle_cycles_after_transfer > 0
    THEN [acc EXCEPT !.final = AddIdleToLast(@, idle_cycles_after_transfer)]
    ELSE acc

\* the physical batch as it is sent
BuildFinal(ts, idle_cycles) == BuildIdle(BuildTail(BuildLoop(BuildInit, ts, idle_cycles)))

\* perform_swd_transfers: status and value of each physical transfer from the
\* response sampled for it; resp[k] = [ack, value, parity]
perform_swd_transfers(final, resp) ==
    [k \in 1..Len(final) |->
        LET r == ParseFields(resp[k].ack, resp[k].value, resp[k].parity,
                             final[k].direction)
        IN  IF r.ok
            THEN [final[k] EXCEPT
                    !.value = IF final[k].direction = "Read" THEN r.value ELSE @,
                    !.status = "Ok"]
            ELSE [final[k] EXCEPT !.status = r.err]]

\* "Retrieve the results"; final_transfers[index] panics on an index past the
\* end, and the transfer is left as it was
RetrieveResults(ts, final, indices) ==
    [i \in 1..Len(ts) |->
        IF indices[i] + 1 \in DOMAIN final
        THEN [ts[i] EXCEPT
                !.status = final[indices[i] + 1].status,
                !.value = IF ts[i].direction = "Read" THEN final[indices[i] + 1].value
                          ELSE @]
        ELSE ts[i]]

\* perform_transfers over SWD, the probe answering resp
perform_transfers(ts, idle_cycles, resp) ==
    LET built == BuildFinal(ts, idle_cycles)
        done == perform_swd_transfers(built.final, resp)
    IN  [transfers |-> RetrieveResults(ts, done, built.result_indices),
         final_transfers |-> done,
         result_indices |-> built.result_indices,
         pushed_at |-> built.pushed_at]

----------------------------------------------------------------------------
(* The target: what the probe samples for each physical transfer           *)

AckKinds == {"OK", "WAIT", "FAULT", "NOACK"}
BadAcks == AckKinds \ {"OK"}

\* the acknowledge bits in wire order (MockJaylink::add_read_response)
AckBits(kind) ==
    CASE kind = "OK" -> <<TRUE, FALSE, FALSE>>
      [] kind = "WAIT" -> <<FALSE, TRUE, FALSE>>
      [] kind = "FAULT" -> <<FALSE, FALSE, TRUE>>
      [] OTHER -> <<FALSE, FALSE, FALSE>>

\* the values a register read may return
ReadValues == <<0, STICKYORUN, STICKYERR, STICKYORUN + STICKYERR>>
Seeds == 0..(Len(ReadValues) - 1)

\* the bits sampled for the k-th physical transfer (0-based), with the parity
\* bit the target computes
Sampled(kind, seed, k) ==
    LET v == ReadValues[((seed + k) % Len(ReadValues)) + 1]
    IN  [ack |-> AckBits(kind), value |-> v, parity |-> (count_ones(v) % 2 = 1)]

\* the acknowledges of a batch of n transfers: all OK, or OK up to a transfer
\* that is answered b, the transfers after it answered OK or b again
AckPatterns(n) ==
    {[k \in 1..n |-> "OK"]}
    \cup UNION {{[k \in 1..n |-> IF k < j THEN "OK" ELSE IF k = j THEN b ELSE c] :
                     c \in {"OK", b}} : j \in 1..n, b \in BadAcks}

NumBad(acks) == Cardinality({k \in DOMAIN acks : acks[k] # "OK"})

SwdIo(acks, seed) == [k \in DOMAIN acks |-> Sampled(acks[k], seed, k - 1)]

----------------------------------------------------------------------------
(* Specification SpecBatch: perform_transfers on every small logical batch *)

DpAddresses == {Abort_ADDRESS, Ctrl_ADDRESS, RdBuff_ADDRESS}
ApAddresses == {0}
WriteValue == 7

\* reads of DPIDR, CTRL/STAT and RDBUFF, writes of ABORT and CTRL/STAT, and a
\* read and a write of the AP
TransferKinds ==
    {DapTransfer_read("DP", a) : a \in DpAddresses}
    \cup {DapTransfer_write("DP", a, WriteValue) : a \in DpAddresses \ {RdBuff_ADDRESS}}
    \cup {DapTransfer_read("AP", a) : a \in ApAddresses}
    \cup {DapTransfer_write("AP", a, WriteValue) : a \in ApAddresses}

Batches == UNION {[1..n -> TransferKinds] : n \in 1..MaxBatch}

IdleChoices == {num_idle_cycles_between_writes, 16}
\* the read values the target starts a batch with
BatchSeeds == {0, 1}

\* no value read yet
NoValue == -1
\* no core attached, no core operation made
NoCore == [attached |-> FALSE]
NoOp == [name |-> "none"]
NoParse == [ok |-> FALSE, err |-> "none", value |-> 0]
NoResult == [kind |-> "none", value |-> 0, err |-> "none"]
NoCall == [fn |-> "none", port |-> "DP", address |-> 0, value |-> 0, len |-> 0]

IdleParse == response = <<>> /\ direction = "Read" /\ parsed = NoParse
IdleEngine ==
    /\ stack = <<>>
    /\ call = NoCall
    /\ result = NoResult
    /\ values = <<>>
    /\ num_line_resets = 0
    /\ num_io_calls = 0
    /\ target = "any"
    /\ target_seed = 0
    /\ bad_acks = 0
    /\ ctrl_stat = NoValue
    /\ aborts = {}
    /\ transferred = 0
IdleCortexM == cm = NoCore /\ cm_op = NoOp
IdleArmv7a == a7 = NoCore /\ a7_op = NoOp
IdleHost == fl = NoOp /\ cf = NoOp
IdleCores == IdleCortexM /\ IdleArmv7a /\ IdleHost
IdleBatch ==
    /\ transfers = <<>>
    /\ final_transfers = <<>>
    /\ result_indices = <<>>
    /\ pushed_at = <<>>
    /\ idle_arg = 0

InitBatch ==
    /\ pc = "batch"
    /\ transfers \in Batches
    /\ idle_arg \in IdleChoices
    /\ final_transfers = <<>>
    /\ result_indices = <<>>
    /\ pushed_at = <<>>
    /\ IdleParse
    /\ IdleEngine
    /\ IdleCores

\* the caller hands the batch to perform_transfers
PerformBatch ==
    /\ pc = "batch"
    /\ \E acks \in AckPatterns(Len(BuildFinal(transfers, idle_arg).final)),
          seed \in BatchSeeds :
          \E r \in {perform_transfers(transfers, idle_arg, SwdIo(acks, seed))} :
              /\ transfers' = r.transfers
              /\ final_transfers' = r.final_transfers
              /\ result_indices' = r.result_indices
              /\ pushed_at' = r.pushed_at
    /\ pc' = "batch_done"
    /\ UNCHANGED <<core_vars, idle_arg, parse_vars, engine_vars>>

NextBatch == PerformBatch

SpecBatch == InitBatch /\ [][NextBatch]_vars

----------------------------------------------------------------------------
(* Specification SpecParse: parse_swd_response on sampled responses        *)

\* register values the target may send (TLC's integers end at 2^31 - 1, so
\* bit 31 is clear in all of them)
ParseValues == {0, 1, 3, 731911287, 1073741824, 2147483647}

\* the n low bits of a value, least significant first
RECURSIVE LowBits(_, _)
LowBits(v, n) == IF n = 0 THEN <<>> ELSE <<v % 2 = 1>> \o LowBits(v \div 2, n - 1)

\* the 32 data bits of a value as the target sends them
ValueBits(v) == LowBits(v, 32)

Zeros(n) == [k \in 1..n |-> FALSE]

\* the bits sampled for one transfer: the probe's own idle and request bits,
\* then acknowledge, data and parity of the target, then the turnaround
SampledBits(ack, v, parity_bit) ==
    Zeros(ack_offset) \o ack \o ValueBits(v) \o <<parity_bit>> \o Zeros(2)

InitParse ==
    /\ pc = "parse"
    /\ \E ack \in [1..3 -> BOOLEAN], v \in ParseValues, parity_bit \in BOOLEAN :
          response = SampledBits(ack, v, parity_bit)
    /\ direction \in {"Read", "Write"}
    /\ parsed = NoParse
    /\ IdleBatch
    /\ IdleEngine
    /\ IdleCores

Parse ==
    /\ pc = "parse"
    /\ parsed' = parse_swd_response(response, direction)
    /\ pc' = "parse_done"
    /\ UNCHANGED <<core_vars, response, direction, batch_vars, engine_vars>>

NextParse == Parse

SpecParse == InitParse /\ [][NextParse]_vars

----------------------------------------------------------------------------
(* Specification Spec: raw_read_register, raw_write_register,              *)
(* raw_read_block, raw_write_block and line_reset against a target.        *)
(* A state stands between two calls: the frame on top of the stack is      *)
(* about to send a batch (pc "transfer", "swj") or about to take the       *)
(* result of the call it made (the other pcs). swd_io itself always        *)
(* succeeds: only the target's acknowledges fail.                          *)

NUM_RESET_BITS == 50

RegisterOps == {"raw_read_register", "raw_write_register"}
BlockOps == {"raw_read_block", "raw_write_block"}

TargetKinds == {"any", "always_wait", "never_ack"}

Ok(value) == [kind |-> "ok", value |-> value, err |-> "none"]
Err(err) == [kind |-> "err", value |-> 0, err |-> err]

\* the locals of a call at its entry
Frame(fn, port, address, value, len) ==
    [fn |-> fn, port |-> port, address |-> address, value |-> value, len |-> len,
     succesful_transfers |-> 0,
     retry |-> 0,
     idle_cycles |-> Max(1, num_idle_cycles_between_writes),
     result |-> "Ok",
     pc |-> IF fn = "line_reset" THEN "swj" ELSE "transfer"]

\* the operations a caller invokes
Calls ==
    {[fn |-> "raw_read_register", port |-> "DP", address |-> a, value |-> 0, len |-> 0] :
        a \in DpAddresses}
    \cup {[fn |-> "raw_write_register", port |-> "DP", address |-> a,
           value |-> WriteValue, len |-> 0] : a \in DpAddresses \ {RdBuff_ADDRESS}}
    \cup {[fn |-> "raw_read_register", port |-> "AP", address |-> a, value |-> 0,
           len |-> 0] : a \in ApAddresses}
    \cup {[fn |-> "raw_write_register", port |-> "AP", address |-> a,
           value |-> WriteValue, len |-> 0] : a \in ApAddresses}
    \cup {[fn |-> f, port |-> "AP", address |-> a, value |-> WriteValue, len |-> n] :
            f \in BlockOps, a \in ApAddresses, n \in 0..MaxBlock}
    \cup {[fn |-> f, port |-> "DP", address |-> Ctrl_ADDRESS, value |-> WriteValue,
           len |-> n] : f \in BlockOps, n \in 1..MaxBlock}

\* the acknowledges the target gives to a batch of n transfers sent by the
\* frame at the given depth: a target that always answers WAIT does so to the
\* transfers of the invoked operation and acknowledges the ABORT writes made
\* in between
TargetAcks(n, depth) ==
    IF target = "always_wait"
    THEN {[k \in 1..n |-> IF depth = 1 THEN "WAIT" ELSE "OK"]}
    ELSE IF target = "never_ack"
    THEN {[k \in 1..n |-> "NOACK"]}
    ELSE {acks \in AckPatterns(n) : NumBad(acks) <= MaxBadAcks - bad_acks}

Top == stack[Len(stack)]
Below == SubSeq(stack, 1, Len(stack) - 1)

\* the frame returns r to its caller
Return(r) == [stack |-> Below, result |-> r]

\* the frame calls g and will take its result at pc
CallFrom(f, pc_after, g) ==
    [stack |-> Below \o <<[f EXCEPT !.pc = pc_after], g>>, result |-> NoResult]

\* what a function returns when its retry loop ends
LoopExit(f) ==
    IF f.fn \in RegisterOps THEN Err("Timeout") ELSE Ok(0)

\* the head of the retry loop, f.retry being the number of rounds made
LoopHead(stk, f) ==
    IF /\ f.retry < num_retries_after_wait
       /\ ~(f.fn \in BlockOps /\ f.succesful_transfers = f.len)
    THEN [stack |-> Append(stk, [f EXCEPT !.pc = "transfer"]), result |-> NoResult]
    ELSE [stack |-> stk, result |-> LoopExit(f)]

\* "continue": the next round of the retry loop
Continue(f) == LoopHead(Below, [f EXCEPT !.retry = @ + 1])

\* idle_cycles = min(max_retry_idle_cycles_after_wait, idle_cycles * 2)
DoubleIdle_Uncapped(f) == [f EXCEPT !.idle_cycles = @ * 2]
DoubleIdle(f) ==
    [f EXCEPT !.idle_cycles = Min(max_retry_idle_cycles_after_wait, @ * 2)]

\* the ABORT write that clears STICKYORUN after a WAIT
ClearOverrun ==
    Frame("raw_write_register", "DP", Abort_ADDRESS, AbortValue(TRUE, FALSE), 0)

\* the statistics and the record of what reached the target, after a batch
AfterBatch(r, acks) ==
    /\ transfers' = r.transfers
    /\ final_transfers' = r.final_transfers
    /\ result_indices' = r.result_indices
    /\ pushed_at' = r.pushed_at
    /\ num_io_calls' = num_io_calls + 1
    /\ bad_acks' = bad_acks + NumBad(acks)
    /\ ctrl_stat' =
          IF /\ Len(r.transfers) = 1 /\ r.transfers[1].status = "Ok"
             /\ r.transfers[1].port = "DP" /\ r.transfers[1].direction = "Read"
             /\ r.transfers[1].address = Ctrl_ADDRESS
          THEN r.transfers[1].value ELSE ctrl_stat
    /\ aborts' =
          IF /\ Len(r.transfers) = 1 /\ r.transfers[1].status = "Ok"
             /\ is_abort(r.transfers[1])
          THEN aborts \cup {r.transfers[1].value} ELSE aborts

\* the stack and the pending result become those of next
Goto(next) ==
    /\ Len(next.stack) <= MaxDepth
    /\ stack' = next.stack
    /\ result' = next.result

Running == pc = "engine" /\ stack # <<>>
Sending(fn) == Running /\ result = NoResult /\ Top.fn = fn /\ Top.pc = "transfer"
Returned(fn, at) == Running /\ result # NoResult /\ Top.fn = fn /\ Top.pc = at

Init ==
    /\ pc = "engine"
    /\ target \in TargetKinds
    /\ target_seed \in (IF target = "any" THEN Seeds ELSE {0})
    /\ stack = <<>>
    /\ call = NoCall
    /\ result = NoResult
    /\ values = <<>>
    /\ num_line_resets = 0
    /\ num_io_calls = 0
    /\ bad_acks = 0
    /\ ctrl_stat = NoValue
    /\ aborts = {}
    /\ transferred = 0
    /\ IdleBatch
    /\ IdleParse
    /\ IdleCores

\* the caller invokes one of the four operations
Invoke ==
    /\ pc = "engine"
    /\ call = NoCall
    /\ \E c \in Calls :
          /\ call' = c
          /\ values' = [i \in 1..c.len |->
                          IF c.fn = "raw_read_block" THEN NoValue ELSE c.value]
          /\ Goto(LoopHead(<<>>, Frame(c.fn, c.port, c.address, c.value, c.len)))
    /\ UNCHANGED <<core_vars, pc, batch_vars, parse_vars, num_line_resets, num_io_calls,
                   target, target_seed, bad_acks, ctrl_stat, aborts, transferred>>

\* the transfer of one attempt of a register operation
RegisterTransfer(f) ==
    IF f.fn = "raw_read_register"
    THEN DapTransfer_read(f.port, f.address)
    ELSE DapTransfer_write(f.port, f.address, f.value)

ReadCtrlStat == Frame("raw_read_register", "DP", Ctrl_ADDRESS, 0, 0)
LineReset == Frame("line_reset", "DP", DPIDR_ADDRESS, 0, 0)

\* "match transfers[0].status" of raw_read_register and raw_write_register
RegisterMatch(f, t) ==
    CASE t.status = "Ok" ->
            Return(Ok(IF f.fn = "raw_read_register" THEN t.value ELSE 0))
      [] t.status = "WaitResponse" -> CallFrom(f, "wait_abort", ClearOverrun)
      [] t.status = "FaultResponse" -> CallFrom(f, "fault_ctrl", ReadCtrlStat)
      [] OTHER -> CallFrom(f, "line_reset", LineReset)

\* raw_read_register / raw_write_register: one round of the loop up to the
\* call it ends with
register_transfer(fn) ==
    /\ Sending(fn)
    /\ \E acks \in TargetAcks(
              Len(BuildFinal(<<RegisterTransfer(Top)>>, Top.idle_cycles).final),
              Len(stack)) :
          \E r \in {perform_transfers(<<RegisterTransfer(Top)>>, Top.idle_cycles,
                                      SwdIo(acks, target_seed + num_io_calls))} :
              /\ AfterBatch(r, acks)
              /\ Goto(RegisterMatch(Top, r.transfers[1]))
    /\ idle_arg' = Top.idle_cycles
    /\ UNCHANGED <<core_vars, pc, parse_vars, call, values, num_line_resets, target, target_seed,
                   transferred>>

\* the write of ABORT after a WAIT returned: "?", double the idle cycles,
\* "continue" (the four operations alike)
wait_abort_returned(fn) ==
    /\ Returned(fn, "wait_abort")
    /\ Goto(IF result.kind = "err" THEN Return(result)
            ELSE Continue(DoubleIdle(Top)))
    /\ UNCHANGED <<core_vars, pc, batch_vars, parse_vars, call, values, num_line_resets,
                   num_io_calls, target, target_seed, bad_acks, ctrl_stat, aborts,
                   transferred>>

\* abort.set_orunerrclr(ctrl.sticky_orun()); abort.set_stkerrclr(ctrl.sticky_err())
FaultAbort_Both(ctrl) == AbortValue(TRUE, TRUE)
FaultAbort(ctrl) == AbortValue(Ctrl_sticky_orun(ctrl), Ctrl_sticky_err(ctrl))

\* the read of CTRL/STAT after a FAULT returned
fault_ctrl_returned(fn) ==
    /\ Returned(fn, "fault_ctrl")
    /\ Goto(IF result.kind = "err" THEN Return(result)
            ELSE IF Ctrl_sticky_orun(result.value) \/ Ctrl_sticky_err(result.value)
            THEN CallFrom(Top, "fault_abort",
                          Frame("raw_write_register", "DP", Abort_ADDRESS,
                                FaultAbort(result.value), 0))
            ELSE Return(Err("FaultResponse")))
    /\ UNCHANGED <<core_vars, pc, batch_vars, parse_vars, call, values, num_line_resets,
                   num_io_calls, target, target_seed, bad_acks, ctrl_stat, aborts,
                   transferred>>

\* the write of ABORT after a FAULT returned
fault_abort_returned(fn) ==
    /\ Returned(fn, "fault_abort")
    /\ Goto(IF result.kind = "err" THEN Return(result)
            ELSE Return(Err("FaultResponse")))
    /\ UNCHANGED <<core_vars, pc, batch_vars, parse_vars, call, values, num_line_resets,
                   num_io_calls, target, target_seed, bad_acks, ctrl_stat, aborts,
                   transferred>>

\* self.line_reset()? returned: "continue"
line_reset_returned(fn) ==
    /\ Returned(fn, "line_reset")
    /\ Goto(IF result.kind = "err" THEN Return(result) ELSE Continue(Top))
    /\ UNCHANGED <<core_vars, pc, batch_vars, parse_vars, call, values, num_line_resets,
                   num_io_calls, target, target_seed, bad_acks, ctrl_stat, aborts,
                   transferred>>

\* the transfers of one round of a block operation
BlockTransfers(f) ==
    [i \in 1..(f.len - f.succesful_transfers) |->
        IF f.fn = "raw_read_block"
        THEN DapTransfer_read(f.port, f.address)
        ELSE DapTransfer_write(f.port, f.address, values[f.succesful_transfers + i])]

\* index of the first transfer that failed, 0 if none did
RECURSIVE FirstFailed(_, _)
FirstFailed(ts, i) ==
    IF i > Len(ts) THEN 0
    ELSE IF ts[i].status # "Ok" THEN i
    ELSE FirstFailed(ts, i + 1)

\* number of transfers handled as Ok by the loop over the results
NumOk(ts) == IF FirstFailed(ts, 1) = 0 THEN Len(ts) ELSE FirstFailed(ts, 1) - 1

\* the loop over the results of raw_read_block and raw_write_block, g being
\* the frame after the Ok results were counted
BlockMatch(g, ts) ==
    IF FirstFailed(ts, 1) = 0
    THEN IF g.fn = "raw_write_block" THEN Return(Ok(0)) ELSE Continue(g)
    ELSE IF ts[FirstFailed(ts, 1)].status = "WaitResponse"
    THEN CallFrom(g, "wait_abort", ClearOverrun)
    ELSE Return(Err(ts[FirstFailed(ts, 1)].status))

\* raw_read_block / raw_write_block: one round of the 'transfer loop up to the
\* call or return it ends with
block_transfer(fn) ==
    /\ Sending(fn)
    /\ \E acks \in TargetAcks(
              Len(BuildFinal(BlockTransfers(Top), Top.idle_cycles).final),
              Len(stack)) :
          \E r \in {perform_transfers(BlockTransfers(Top), Top.idle_cycles,
                                      SwdIo(acks, target_seed + num_io_calls))} :
              /\ AfterBatch(r, acks)
              /\ values' =
                    [i \in DOMAIN values |->
                        IF /\ fn = "raw_read_block"
                           /\ i > Top.succesful_transfers
                           /\ i <= Top.succesful_transfers + NumOk(r.transfers)
                        THEN r.transfers[i - Top.succesful_transfers].value
                        ELSE values[i]]
              /\ transferred' = Top.succesful_transfers + NumOk(r.transfers)
              /\ Goto(BlockMatch(
                         [Top EXCEPT !.succesful_transfers = @ + NumOk(r.transfers)],
                         r.transfers))
    /\ idle_arg' = Top.idle_cycles
    /\ UNCHANGED <<core_vars, pc, parse_vars, call, num_line_resets, target, target_seed>>

\* the bits of 0x7FFFFFFFFFFFF are ones up to bit 50; swj_sequence clocks
\* the lowest bit_len of them out
RESET_SEQUENCE_ONES == 51
swj_sequence(bit_len, ones) == Min(bit_len, ones)

\* line_reset: report_line_reset, the reset sequence, and the call of
\* raw_read_register(DebugPort, 0); value holds the high cycles clocked out
line_reset_sequence ==
    /\ Running /\ result = NoResult
    /\ Top.fn = "line_reset" /\ Top.pc = "swj"
    /\ num_line_resets' = num_line_resets + 1
    /\ num_io_calls' = num_io_calls + 1
    /\ Goto(CallFrom([Top EXCEPT
                         !.value = swj_sequence(NUM_RESET_BITS, RESET_SEQUENCE_ONES)],
                     "read",
                     Frame("raw_read_register", "DP", DPIDR_ADDRESS, 0, 0)))
    /\ UNCHANGED <<core_vars, pc, batch_vars, parse_vars, call, values, target, target_seed,
                   bad_acks, ctrl_stat, aborts, transferred>>

\* line_reset: the read of DPIDR returned
line_reset_read_returned ==
    /\ Returned("line_reset", "read")
    /\ Goto(IF result.kind = "ok" THEN Return(Ok(0))
            ELSE IF Top.retry + 1 < 2
            THEN [stack |-> Append(Below, [Top EXCEPT !.result = result.err,
                                                      !.retry = @ + 1,
                                                      !.pc = "swj"]),
                  result |-> NoResult]
            ELSE Return(Err(result.err)))
    /\ UNCHANGED <<core_vars, pc, batch_vars, parse_vars, call, values, num_line_resets,
                   num_io_calls, target, target_seed, bad_acks, ctrl_stat, aborts,
                   transferred>>

Next ==
    \/ Invoke
    \/ register_transfer("raw_read_register")
    \/ register_transfer("raw_write_register")
    \/ block_transfer("raw_read_block")
    \/ block_transfer("raw_write_block")
    \/ wait_abort_returned("raw_read_register")
    \/ wait_abort_returned("raw_write_register")
    \/ wait_abort_returned("raw_read_block")
    \/ wait_abort_returned("raw_write_block")
    \/ fault_ctrl_returned("raw_read_register")
    \/ fault_ctrl_returned("raw_write_register")
    \/ fault_abort_returned("raw_read_register")
    \/ fault_abort_returned("raw_write_register")
    \/ line_reset_returned("raw_read_register")
    \/ line_reset_returned("raw_write_register")
    \/ line_reset_sequence
    \/ line_reset_read_returned

Spec == Init /\ [][Next]_vars

----------------------------------------------------------------------------
(* Properties of perform_transfers (specification SpecBatch)               *)

BatchDone == pc = "batch_done"

\* the kinds of transfer the statements speak of
IsApRead(t) == t.port = "AP" /\ t.direction = "Read"
IsDpRead(t) == t.port = "DP" /\ t.direction = "Read"
IsWrite(t) == t.direction = "Write"
IsWriteAbort(t) == t.port = "DP" /\ t.direction = "Write" /\ t.address = 0
IsReadRdBuff(t) == t.port = "DP" /\ t.direction = "Read" /\ t.address = 12
IsVerifySensitive(t) ==
    \/ IsWriteAbort(t)
    \/ IsDpRead(t) /\ t.address = 0
    \/ IsDpRead(t) /\ t.address = 4

\* the physical transfer at 0-based index k
Phys(k) == final_transfers[k + 1]

SameRequest(p, t) ==
    p.port = t.port /\ p.address = t.address /\ p.direction = t.direction

\* the number of physical transfers placed after logical transfer i and before
\* logical transfer i + 1 (or the end of the batch)
GapLen(i) ==
    (IF i < Len(transfers) THEN pushed_at[i + 1] ELSE Len(final_transfers))
    - pushed_at[i] - 1

\* exactly one transfer is placed there, and it is a read of RDBUFF
OneRdBuff(i) == GapLen(i) = 1 /\ IsReadRdBuff(Phys(pushed_at[i] + 1))

\* C1: an AP read followed by a transfer that is no AP read is separated from
\* it by exactly one read of RDBUFF; nothing is inserted between two AP reads,
\* nor after a DP read.
C1_ApReadFlush ==
    BatchDone =>
        \A i \in 1..(Len(transfers) - 1) :
            /\ SameRequest(Phys(pushed_at[i]), transfers[i])
            /\ (IsApRead(transfers[i]) /\ ~IsApRead(transfers[i + 1]))
                   => OneRdBuff(i)
            /\ (IsApRead(transfers[i]) /\ IsApRead(transfers[i + 1]))
                   => GapLen(i) = 0
            /\ IsDpRead(transfers[i])
                   => GapLen(i) = 0

C1_Witness ==
    /\ BatchDone
    /\ Len(transfers) = 3
    /\ IsApRead(transfers[1]) /\ IsWrite(transfers[2]) /\ IsApRead(transfers[3])
    /\ IsReadRdBuff(Phys(1))
    /\ pushed_at = <<0, 2, 3>>

\* the statement of C2 for the last logical transfer
C2_Last(last) ==
    IF IsApRead(last) \/ (IsWrite(last) /\ ~IsWriteAbort(last))
    THEN /\ OneRdBuff(Len(transfers))
         /\ Phys(Len(final_transfers) - 1).idle_cycles_after = idle_cycles_after_transfer
    ELSE /\ GapLen(Len(transfers)) = 0
         /\ Phys(Len(final_transfers) - 1).idle_cycles_after =
                idle_cycles_after_transfer + (IF IsWrite(last) THEN idle_arg ELSE 0)

\* C2: the physical batch ends with exactly one read of RDBUFF after the last
\* logical transfer iff that transfer is an AP read or a write other than a
\* write to DP ABORT; the last physical transfer carries
\* idle_cycles_after_transfer idle bits on top of its own.
C2_FinalRead ==
    BatchDone => C2_Last(transfers[Len(transfers)])

C2_Witness ==
    /\ BatchDone
    /\ IsWrite(transfers[Len(transfers)])
    /\ transfers[Len(transfers)].port = "DP"
    /\ transfers[Len(transfers)].address = Ctrl_ADDRESS
    /\ IsReadRdBuff(Phys(Len(final_transfers) - 1))
    /\ pushed_at[Len(transfers)] = Len(final_transfers) - 2
    /\ Phys(Len(final_transfers) - 1).idle_cycles_after = idle_cycles_after_transfer

\* the flush of a write W = transfers[i] before transfers[i + 1]
FlushedBefore(i) ==
    /\ OneRdBuff(i)
    /\ Phys(pushed_at[i]).idle_cycles_after
           >= idle_arg + idle_cycles_before_write_verify

C4_From(t, src) ==
    /\ src < Len(final_transfers)
    /\ t.status = Phys(src).status
    /\ t.direction = "Read" => t.value = Phys(src).value

\* C4: a logical DP read carries status and value of its own physical
\* transfer; a logical AP read carries value and status of the physical
\* transfer following it, a write other than DP ABORT the status of the
\* physical transfer following it.
C4_ResultMapping ==
    BatchDone =>
        /\ \A i \in 1..Len(transfers) :
               C4_From(transfers[i],
                       IF IsApRead(transfers[i])
                          \/ (IsWrite(transfers[i]) /\ ~IsWriteAbort(transfers[i]))
                       THEN pushed_at[i] + 1 ELSE pushed_at[i])
        /\ (Len(transfers) = 2 /\ IsApRead(transfers[1])
            /\ transfers[2].port = "DP" /\ transfers[2].direction = "Read")
               => result_indices = <<1, 2>>
        /\ (Len(transfers) = 2 /\ IsApRead(transfers[2])
            /\ transfers[1].port = "DP" /\ transfers[1].direction = "Read")
               => result_indices = <<0, 2>>

C4_Witness ==
    /\ BatchDone
    /\ Len(transfers) = 2
    /\ IsApRead(transfers[1])
    /\ transfers[2].port = "DP" /\ transfers[2].direction = "Read"
    /\ transfers[1].status = "Ok" /\ transfers[2].status = "Ok"
    /\ transfers[1].value = Phys(1).value /\ transfers[1].value # Phys(0).value
    /\ transfers[2].value = Phys(2).value /\ transfers[2].value # Phys(1).value

----------------------------------------------------------------------------
(* Properties of parse_swd_response (specification SpecParse)              *)

ParseDone == pc = "parse_done"

AckOf(resp) == <<resp[11], resp[12], resp[13]>>
DataOf(resp) == [k \in 1..32 |-> resp[13 + k]]
\* number of ones among the 32 data bits and the parity bit
OnesOf(resp) == Cardinality({k \in 14..46 : resp[k]})

ProtocolErrors == {"NoAcknowledge", "SwdProtocol"}

----------------------------------------------------------------------------
(* Properties of the retry and recovery engine (specification Spec)        *)

\* the invoked operation has returned to its caller
Done == pc = "engine" /\ call # NoCall /\ stack = <<>>

\* the frame on top of the stack sent its batch in this step
Sent(fn) == Sending(fn) /\ num_io_calls' = num_io_calls + 1

\* the frame above the one that was on top: the call just made
Callee == stack'[Len(stack) + 1]

\* the frame that was on top made a call and waits for it at the given pc
Called(at) ==
    /\ Len(stack') = Len(stack) + 1
    /\ stack'[Len(stack)] = [Top EXCEPT !.pc = at]
    /\ SubSeq(stack', 1, Len(stack) - 1) = Below
    /\ result' = NoResult

\* the callee is a write of v to DP ABORT / a read of DP CTRL/STAT
IsAbortWriteOf(g, v) ==
    /\ g.fn = "raw_write_register" /\ g.port = "DP" /\ g.address = 0
    /\ g.value = v /\ g.pc = "transfer"
IsCtrlStatRead(g) ==
    /\ g.fn = "raw_read_register" /\ g.port = "DP" /\ g.address = 4
    /\ g.pc = "transfer"

\* the frame that was on top returned r
ReturnedWith(r) == stack' = Below /\ result' = r

HasStickyOrun(v) == (v \div 2) % 2 = 1
HasStickyErr(v) == (v \div 32) % 2 = 1

IdleSeries == {2, 4, 8, 16, 32, 64, 128}

\* an attempt of a register operation sends the transfer of the operation
\* with the idle cycles of the frame; answered WAIT, the operation calls a
\* write of ORUNERRCLR alone to DP ABORT
C5_OnWait(fn) ==
    Sent(fn) =>
        /\ Len(transfers') = 1
        /\ idle_arg' = Top.idle_cycles
        /\ transfers'[1].port = Top.port /\ transfers'[1].address = Top.address
        /\ transfers'[1].direction = (IF fn = "raw_read_register" THEN "Read" ELSE "Write")
        /\ fn = "raw_write_register" =>
              final_transfers'[1].idle_cycles_after >= Top.idle_cycles
        /\ transfers'[1].status = "WaitResponse" =>
              Called("wait_abort") /\ IsAbortWriteOf(Callee, 16)

\* the ABORT write done, the operation is about to send the same transfer
\* again, the idle cycles doubled up to max_retry_idle_cycles_after_wait
C5_OnRetry(fn) ==
    (/\ Returned(fn, "wait_abort") /\ result.kind = "ok"
     /\ Top.retry + 1 < num_retries_after_wait)
        => /\ result' = NoResult
           /\ stack' = Append(Below,
                  [Top EXCEPT !.pc = "transfer", !.retry = @ + 1,
                              !.idle_cycles = IF 2 * @ < 128 THEN 2 * @ ELSE 128])

\* the idle cycles of every register operation start at
\* max(1, num_idle_cycles_between_writes) = 2, follow 2, 4, 8, ... and never
\* exceed 128
C5_IdleCycles ==
    \A i \in 1..Len(stack) :
        stack[i].fn \in RegisterOps =>
            /\ stack[i].idle_cycles \in IdleSeries
            /\ stack[i].retry = 0 => stack[i].idle_cycles = 2

\* C5: an attempt of raw_read_register or raw_write_register answered WAIT is
\* followed by a write of DP ABORT with only ORUNERRCLR set and then by the
\* same transfer again, with idle cycles min(2 x previous,
\* max_retry_idle_cycles_after_wait); the idle cycles start at 2, follow
\* 2, 4, 8, ... and never exceed 128.
C5_WaitRetry ==
    /\ []C5_IdleCycles
    /\ [][\A fn \in RegisterOps : C5_OnWait(fn) /\ C5_OnRetry(fn)]_vars

\* the eighth attempt of a register operation, the idle cycles held at 128
C5_Witness ==
    /\ Sending("raw_write_register")
    /\ Len(stack) = 1
    /\ Top.retry = 7 /\ Top.idle_cycles = 128
    /\ idle_arg = 2
    /\ aborts = {ORUNERRCLR}
    /\ transfers[1].status = "Ok" /\ is_abort(transfers[1])

\* C6 as claimed: against a target answering WAIT to every attempt (and OK to
\* the ABORT writes), each of the four operations returns the error of the
\* exhausted retries, and none returns Ok while words remain untransferred.
C6_WaitExhausted ==
    (Done /\ target = "always_wait") =>
        /\ (call.fn \in BlockOps => call.len > 0) => result = Err("Timeout")
        /\ (call.fn \in BlockOps /\ result.kind = "ok") => transferred = call.len

\* a register operation whose transfer was answered FAULT calls a read of DP
\* CTRL/STAT
C7_OnFault(fn) ==
    (Sent(fn) /\ transfers'[1].status = "FaultResponse")
        => Called("fault_ctrl") /\ IsCtrlStatRead(Callee)

\* CTRL/STAT read: with a sticky flag set the operation calls a write of
\* exactly the matching clear bits to DP ABORT, else it returns FaultResponse
C7_OnCtrlStat(fn) ==
    (Returned(fn, "fault_ctrl") /\ result.kind = "ok") =>
        IF HasStickyOrun(result.value) \/ HasStickyErr(result.value)
        THEN /\ Called("fault_abort")
             /\ IsAbortWriteOf(Callee,
                    (IF HasStickyOrun(result.value) THEN 16 ELSE 0)
                    + (IF HasStickyErr(result.value) THEN 4 ELSE 0))
        ELSE ReturnedWith(Err("FaultResponse"))

\* ABORT written: the operation returns FaultResponse
C7_OnAbort(fn) ==
    (Returned(fn, "fault_abort") /\ result.kind = "ok")
        => ReturnedWith(Err("FaultResponse"))

\* a frame handling a FAULT never sends its transfer again
C7_NoReissue ==
    \A i \in 1..Len(stack) :
        (stack[i].pc \in {"fault_ctrl", "fault_abort"} /\ i <= Len(stack'))
            => stack'[i].pc \in {"fault_ctrl", "fault_abort"}

\* C7: raw_read_register or raw_write_register whose transfer is answered
\* FAULT reads DP CTRL/STAT; if STICKYORUN or STICKYERR is set it writes DP
\* ABORT with exactly the matching ORUNERRCLR / STKERRCLR bits; it then
\* returns FaultResponse, and does not send the faulted transfer again.
C7_FaultRecovery ==
    [][/\ \A fn \in RegisterOps :
              C7_OnFault(fn) /\ C7_OnCtrlStat(fn) /\ C7_OnAbort(fn)
       /\ C7_NoReissue]_vars

\* a register operation returned FaultResponse after one attempt, the read of
\* CTRL/STAT that showed STICKYERR alone, and the write of STKERRCLR alone
C7_Witness ==
    /\ Done
    /\ call.fn \in RegisterOps
    /\ result = Err("FaultResponse")
    /\ ctrl_stat = STICKYERR
    /\ aborts = {STKERRCLR}
    /\ num_io_calls = 3

\* C8 as claimed: whenever an operation, block operations included, returns
\* FaultResponse, CTRL/STAT was read and every sticky flag it showed was
\* cleared through DP ABORT.
C8_FaultCleared ==
    (Done /\ result = Err("FaultResponse")) =>
        /\ ctrl_stat # NoValue
        /\ HasStickyOrun(ctrl_stat) => \E a \in aborts : (a \div 16) % 2 = 1
        /\ HasStickyErr(ctrl_stat) => \E a \in aborts : (a \div 4) % 2 = 1

\* C9 as claimed: against a target that never acknowledges, the operation
\* ends after a bounded number of line resets: three attempts at most, each
\* followed by a line reset of two reset sequences at most.
C9_BoundedLineResets ==
    target = "never_ack" => num_line_resets <= 3 * 2

-----------------------------------------------------------------------------
(* Cortex-M core control: architecture/arm/core/armv6m.rs                  *)
(*                                                                         *)
(* A 32-bit register value is the pair of its upper and lower halfword.    *)
(* Every operation of the CoreInterface is one step: it takes the core     *)
(* record, makes its memory accesses against the target in order and       *)
(* gives the new record and its result.  Errors of the memory interface    *)
(* itself are not modelled.                                                *)

\* most polls of DHCSR a timeout leaves room for
MaxPolls == 2
\* values of the program counter
MaxPc == 1

Word(hi, lo) == [hi |-> hi, lo |-> lo]
Zero == Word(0, 0)

\* Dhcsr: control bits (lower halfword) and status bits (upper halfword)
C_DEBUGEN == 1
C_HALT == 2
C_STEP == 4
C_MASKINTS == 8
S_HALT == 2
S_SLEEP == 4
S_LOCKUP == 8
S_RESET_ST == 512
DBGKEY == 41055
StatusFlags == {S_HALT, S_SLEEP, S_LOCKUP}

BitsOf(flags) == (IF 1 \in flags THEN 1 ELSE 0) + (IF 2 \in flags THEN 2 ELSE 0)
                 + (IF 4 \in flags THEN 4 ELSE 0) + (IF 8 \in flags THEN 8 ELSE 0)
                 + (IF 512 \in flags THEN 512 ELSE 0)

\* Dhcsr(0) with the given control bits set
Dhcsr(bits) == Word(0, BitsOf(bits))

\* a variant of enable_write that leaves the upper halfword as it is
enable_write_NoKey(value) == value
\* Dhcsr::enable_write: the upper halfword becomes the debug key
enable_write(value) == Word(DBGKEY, value.lo)

\* Dfsr: the sticky bits and the halt reason each one stands for
DFSR_HALTED == 1
DFSR_BKPT == 2
DFSR_DWTTRAP == 4
DFSR_VCATCH == 8
DFSR_EXTERNAL == 16
DfsrValues == {0, DFSR_HALTED, DFSR_BKPT, DFSR_DWTTRAP, DFSR_VCATCH, DFSR_EXTERNAL}
halt_reason(dfsr) ==
    CASE dfsr = 0 -> "Unknown"
      [] dfsr = DFSR_HALTED -> "Request"
      [] dfsr = DFSR_BKPT -> "Breakpoint"
      [] dfsr = DFSR_DWTTRAP -> "Watchpoint"
      [] dfsr = DFSR_VCATCH -> "Exception"
      [] dfsr = DFSR_EXTERNAL -> "External"
HaltReasons == {halt_reason(d) : d \in DfsrValues}
Dfsr_clear_all == Word(0, 31)

\* Demcr, Aircr and the Thumb bit of XPSR
VC_CORERESET == 1
VECTKEY == 1530
SYSRESETREQ == 4
XPSR_THUMB == 256

\* CoreStatus
CoreStatus(kind, reason) == [kind |-> kind, reason |-> reason]
CoreStatus_Running == CoreStatus("Running", "none")
CoreStatus_Sleeping == CoreStatus("Sleeping", "none")
CoreStatus_LockedUp == CoreStatus("LockedUp", "none")
CoreStatus_Unknown == CoreStatus("Unknown", "none")
CoreStatus_Halted(reason) == CoreStatus("Halted", reason)
is_halted(status) == status.kind = "Halted"

\* BpCtrl
BP_ENABLE == 1
BP_KEY == 2
BpCtrl(key, enable) == Word(0, (IF key THEN BP_KEY ELSE 0) + (IF enable THEN BP_ENABLE ELSE 0))

\* results of the core operations
CoreOk(value, status) == [kind |-> "ok", value |-> value, status |-> status, err |-> "none"]
CoreErr(err) == [kind |-> "err", value |-> 0, status |-> CoreStatus_Unknown, err |-> err]
Op(name, arg, r) == [name |-> name, arg |-> arg, result |-> r]
Step(m, r) == [m |-> m, r |-> r]

\* one access of the memory interface
Access(acc, reg, idx, value) == [acc |-> acc, reg |-> reg, idx |-> idx, value |-> value]
Logged(m, e) == [m EXCEPT !.log = Append(@, e)]

-----------------------------------------------------------------------------
(* The target: a Cortex-M0 behind the memory interface                     *)

\* the processor enters Debug state: S_HALT alone is set, the cause is
\* latched in DFSR, a step has executed its instruction
EnterDebug(m, cause) ==
    [m EXCEPT !.flags = {S_HALT},
              !.halt_pending = FALSE,
              !.stepping = FALSE,
              !.pc_reg = IF m.stepping THEN (@ + 1) % (MaxPc + 1) ELSE @,
              !.dfsr = IF @ = 0 THEN cause ELSE @]

\* the value DHCSR reads as
DhcsrValue(m) == Word(BitsOf(m.flags), IF m.c_debugen THEN C_DEBUGEN ELSE 0)

\* a write to DHCSR: ignored without the key; C_HALT requests a halt,
\* clearing it lets a halted processor run, for one instruction with C_STEP
DhcsrWritten(m, v) ==
    IF v.hi # DBGKEY THEN m
    ELSE LET en == Bit(v.lo, C_DEBUGEN)
             m1 == [m EXCEPT !.c_debugen = en]
         IN  CASE en /\ Bit(v.lo, C_HALT) ->
                    IF S_HALT \in m.flags THEN m1 ELSE [m1 EXCEPT !.halt_pending = TRUE]
               [] en /\ ~ Bit(v.lo, C_HALT) /\ S_HALT \in m.flags ->
                    [m1 EXCEPT !.flags = {},
                               !.halt_pending = Bit(v.lo, C_STEP),
                               !.stepping = Bit(v.lo, C_STEP)]
               [] en /\ ~ Bit(v.lo, C_HALT) /\ S_HALT \notin m.flags ->
                    [m1 EXCEPT !.halt_pending = FALSE, !.stepping = FALSE]
               [] OTHER -> m1

\* the processor leaves a system reset: with debug enabled and the reset
\* vector caught it enters Debug state, otherwise it runs
ResetLeft(m) ==
    IF m.c_debugen /\ Bit(m.demcr.lo, VC_CORERESET)
    THEN EnterDebug(m, DFSR_VCATCH)
    ELSE [m EXCEPT !.flags = {}]

\* a write to AIRCR: ignored without the key; SYSRESETREQ resets the
\* processor, the debug registers keep their values
AircrWritten(m, v) ==
    IF v.hi = VECTKEY /\ Bit(v.lo, SYSRESETREQ)
    THEN [m EXCEPT !.flags = {S_RESET_ST},
                   !.halt_pending = FALSE,
                   !.stepping = FALSE,
                   !.pc_reg = 0,
                   !.xpsr = m.reset_xpsr]
    ELSE m

\* what a write does to the target
Written(m, reg, idx, v) ==
    CASE reg = "DHCSR" -> DhcsrWritten(m, v)
      [] reg = "DFSR" -> [m EXCEPT !.dfsr = IF @ # 0 /\ Bit(v.lo, @) THEN 0 ELSE @]
      [] reg = "BP_CTRL" -> IF Bit(v.lo, BP_KEY)
                            THEN [m EXCEPT !.bp_enable = Bit(v.lo, BP_ENABLE)]
                            ELSE m
      [] reg = "BP_COMP" -> IF idx < Len(m.comps)
                            THEN [m EXCEPT !.comps[idx + 1] = v]
                            ELSE m
      [] reg = "DEMCR" -> [m EXCEPT !.demcr = v]
      [] reg = "AIRCR" -> AircrWritten(m, v)
      [] reg = "XPSR" -> [m EXCEPT !.xpsr = v]

\* what a read returns
ValueOf(m, reg, idx) ==
    CASE reg = "DHCSR" -> DhcsrValue(m)
      [] reg = "DFSR" -> Word(0, m.dfsr)
      [] reg = "BP_CTRL" -> Word(0, 16 * Len(m.comps))
      [] reg = "BP_COMP" -> IF idx < Len(m.comps) THEN m.comps[idx + 1] ELSE Zero
      [] reg = "PC" -> Word(0, m.pc_reg)
      [] reg = "DEMCR" -> m.demcr
      [] reg = "XPSR" -> m.xpsr

write_word_32(m, reg, idx, v) == Logged(Written(m, reg, idx, v), Access("write", reg, idx, v))
read_word_32(m, reg, idx) == Logged(m, Access("read", reg, idx, ValueOf(m, reg, idx)))
flush(m) == Logged(m, Access("flush", "none", 0, Zero))
read_core_reg(m, reg) == Logged(m, Access("read_core_reg", reg, 0, ValueOf(m, reg, 0)))
write_core_reg(m, reg, v) == Logged(Written(m, reg, 0, v), Access("write_core_reg", reg, 0, v))

-----------------------------------------------------------------------------
(* The operations of Armv6m                                                *)

\* Armv6m::new on a State that is not initialized: the status is decoded
\* from DHCSR and DFSR is cleared
Armv6m_new(m) ==
    LET dhcsr == ValueOf(m, "DHCSR", 0)
        m1 == read_word_32(m, "DHCSR", 0)
        halted == ~ Bit(dhcsr.hi, S_SLEEP) /\ Bit(dhcsr.hi, S_HALT)
        m2 == IF halted THEN read_word_32(m1, "DFSR", 0) ELSE m1
        core_state == IF Bit(dhcsr.hi, S_SLEEP) THEN CoreStatus_Sleeping
                      ELSE IF halted
                      THEN CoreStatus_Halted(halt_reason(ValueOf(m1, "DFSR", 0).lo))
                      ELSE CoreStatus_Running
        m3 == write_word_32(m2, "DFSR", 0, Dfsr_clear_all)
    IN  [m3 EXCEPT !.current_state = core_state]

\* wait_for_core_halted: the timeout leaves room for n polls; a pending
\* halt takes effect after d polls
RECURSIVE wait_for_core_halted(_, _, _)
wait_for_core_halted(m, n, d) ==
    IF n = 0 THEN Step(m, CoreErr("Timeout"))
    ELSE LET t == IF m.halt_pending /\ d = 0 THEN EnterDebug(m, DFSR_HALTED) ELSE m
             dhcsr_val == ValueOf(t, "DHCSR", 0)
             m1 == read_word_32(t, "DHCSR", 0)
         IN  IF Bit(dhcsr_val.hi, S_HALT)
             THEN Step(m1, CoreOk(0, CoreStatus_Unknown))
             ELSE wait_for_core_halted(m1, n - 1, Max(d - 1, 0))

\* a variant of status that tests S_SLEEP before S_LOCKUP
status_SleepFirst(m) ==
    LET dhcsr == ValueOf(m, "DHCSR", 0)
        m1 == read_word_32(m, "DHCSR", 0)
    IN  IF Bit(dhcsr.hi, S_SLEEP)
        THEN Step([m1 EXCEPT !.current_state = CoreStatus_Sleeping],
                  CoreOk(0, CoreStatus_Sleeping))
        ELSE IF Bit(dhcsr.hi, S_LOCKUP)
        THEN Step([m1 EXCEPT !.current_state = CoreStatus_LockedUp],
                  CoreOk(0, CoreStatus_LockedUp))
        ELSE IF Bit(dhcsr.hi, S_HALT)
        THEN LET reason == halt_reason(ValueOf(m1, "DFSR", 0).lo)
                 m2 == read_word_32(m1, "DFSR", 0)
                 m3 == write_word_32(m2, "DFSR", 0, Dfsr_clear_all)
             IN  IF is_halted(m.current_state) /\ reason = "Unknown"
                 THEN Step(m3, CoreOk(0, m.current_state))
                 ELSE Step([m3 EXCEPT !.current_state = CoreStatus_Halted(reason)],
                           CoreOk(0, CoreStatus_Halted(reason)))
        ELSE Step([m1 EXCEPT !.current_state = CoreStatus_Running],
                  CoreOk(0, CoreStatus_Running))
\* status
status(m) ==
    LET dhcsr == ValueOf(m, "DHCSR", 0)
        m1 == read_word_32(m, "DHCSR", 0)
    IN  IF Bit(dhcsr.hi, S_LOCKUP)
        THEN Step([m1 EXCEPT !.current_state = CoreStatus_LockedUp],
                  CoreOk(0, CoreStatus_LockedUp))
        ELSE IF Bit(dhcsr.hi, S_SLEEP)
        THEN Step([m1 EXCEPT !.current_state = CoreStatus_Sleeping],
                  CoreOk(0, CoreStatus_Sleeping))
        ELSE IF Bit(dhcsr.hi, S_HALT)
        THEN LET reason == halt_reason(ValueOf(m1, "DFSR", 0).lo)
                 m2 == read_word_32(m1, "DFSR", 0)
                 m3 == write_word_32(m2, "DFSR", 0, Dfsr_clear_all)
             IN  IF is_halted(m.current_state) /\ reason = "Unknown"
                 THEN Step(m3, CoreOk(0, m.current_state))
                 ELSE Step([m3 EXCEPT !.current_state = CoreStatus_Halted(reason)],
                           CoreOk(0, CoreStatus_Halted(reason)))
        ELSE Step([m1 EXCEPT !.current_state = CoreStatus_Running],
                  CoreOk(0, CoreStatus_Running))

\* a variant of halt that reads the program counter after a timeout too
halt_ReadPcAlways(m, n, d) ==
    LET value == enable_write(Dhcsr({C_HALT, C_DEBUGEN}))
        m1 == write_word_32(m, "DHCSR", 0, value)
        w == wait_for_core_halted(m1, n, d)
        s == status(w.m)
        m2 == read_core_reg(s.m, "PC")
    IN  IF w.r.kind = "err" THEN Step(m2, w.r)
        ELSE Step(m2, CoreOk(ValueOf(s.m, "PC", 0).lo, CoreStatus_Unknown))
\* halt
halt(m, n, d) ==
    LET value == enable_write(Dhcsr({C_HALT, C_DEBUGEN}))
        m1 == write_word_32(m, "DHCSR", 0, value)
        w == wait_for_core_halted(m1, n, d)
    IN  IF w.r.kind = "err" THEN w
        ELSE LET s == status(w.m)
                 m2 == read_core_reg(s.m, "PC")
             IN  Step(m2, CoreOk(ValueOf(s.m, "PC", 0).lo, CoreStatus_Unknown))

\* enable_breakpoints
enable_breakpoints(m, state) ==
    LET value == BpCtrl(TRUE, state)
        m1 == flush(write_word_32(m, "BP_CTRL", 0, value))
    IN  Step([m1 EXCEPT !.hw_breakpoints_enabled = state], CoreOk(0, CoreStatus_Unknown))

\* step
step(m, n, d) ==
    LET was_breakpoint == m.current_state = CoreStatus_Halted("Breakpoint")
        m0 == IF was_breakpoint THEN enable_breakpoints(m, FALSE).m ELSE m
        value == enable_write(Dhcsr({C_STEP, C_DEBUGEN, C_MASKINTS}))
        m1 == flush(write_word_32(m0, "DHCSR", 0, value))
        w == wait_for_core_halted(m1, n, d)
    IN  IF w.r.kind = "err" THEN w
        ELSE LET m2 == IF was_breakpoint THEN enable_breakpoints(w.m, TRUE).m ELSE w.m
                 m3 == read_core_reg(m2, "PC")
             IN  Step(m3, CoreOk(ValueOf(m2, "PC", 0).lo, CoreStatus_Unknown))

\* a variant of run that resumes the core whatever the step returned
run_IgnoreStep(m, n, d) ==
    LET s == step(m, n, d)
        value == enable_write(Dhcsr({C_DEBUGEN}))
        m1 == flush(write_word_32(s.m, "DHCSR", 0, value))
    IN  Step([m1 EXCEPT !.current_state = CoreStatus_Running], CoreOk(0, CoreStatus_Unknown))
\* run
run(m, n, d) ==
    LET s == step(m, n, d)
    IN  IF s.r.kind = "err" THEN s
        ELSE LET value == enable_write(Dhcsr({C_DEBUGEN}))
                 m1 == flush(write_word_32(s.m, "DHCSR", 0, value))
             IN  Step([m1 EXCEPT !.current_state = CoreStatus_Running],
                      CoreOk(0, CoreStatus_Unknown))

\* cortex_m_core_start: DebugCoreStart
cortex_m_core_start(m) ==
    LET current_dhcsr == ValueOf(m, "DHCSR", 0)
        m1 == read_word_32(m, "DHCSR", 0)
    IN  IF Bit(current_dhcsr.lo, C_DEBUGEN)
        THEN Step(m1, CoreOk(0, CoreStatus_Unknown))
        ELSE Step(write_word_32(m1, "DHCSR", 0, enable_write(Dhcsr({C_DEBUGEN}))),
                  CoreOk(0, CoreStatus_Unknown))

-----------------------------------------------------------------------------
(* Specification SpecCortexM: a debugger drives one Cortex-M0 core          *)

NoBreakpoints == <<Zero, Zero>>

\* the target and the persisted State when the core is attached: a halted
\* processor has debug enabled; breakpoints were enabled by an earlier
\* session or not at all
CortexMTargets ==
    { [attached |-> TRUE, flags |-> f, halt_pending |-> FALSE, stepping |-> FALSE,
       c_debugen |-> e, dfsr |-> d, bp_enable |-> b, comps |-> NoBreakpoints,
       pc_reg |-> 0, current_state |-> CoreStatus_Unknown,
       hw_breakpoints_enabled |-> b, log |-> <<>>] :
         f \in {{}, {S_HALT}, {S_SLEEP}, {S_LOCKUP}}, e \in BOOLEAN,
         d \in DfsrValues, b \in BOOLEAN }

Attachable(t) ==
    /\ S_HALT \in t.flags => t.c_debugen
    /\ S_HALT \notin t.flags => t.dfsr = 0

Begin(m) == [m EXCEPT !.log = <<>>]

InitCortexM ==
    /\ pc = "cortexm"
    /\ \E t \in CortexMTargets :
          /\ Attachable(t)
          /\ cm = Armv6m_new(t)
    /\ cm_op = Op("new", 0, CoreOk(0, CoreStatus_Unknown))
    /\ IdleBatch
    /\ IdleParse
    /\ IdleEngine
    /\ IdleArmv7a
    /\ IdleHost

Halt ==
    /\ pc = "cortexm"
    /\ \E n \in 0..MaxPolls, d \in 0..MaxPolls :
          \E s \in {halt(Begin(cm), n, d)} :
             /\ cm' = s.m
             /\ cm_op' = Op("halt", n, s.r)
    /\ UNCHANGED <<pc, batch_vars, parse_vars, engine_vars, a7_vars, host_vars>>

Run ==
    /\ pc = "cortexm"
    /\ \E n \in 1..MaxPolls, d \in 0..MaxPolls :
          \E s \in {run(Begin(cm), n, d)} :
             /\ cm' = s.m
             /\ cm_op' = Op("run", n, s.r)
    /\ UNCHANGED <<pc, batch_vars, parse_vars, engine_vars, a7_vars, host_vars>>

StepCore ==
    /\ pc = "cortexm"
    /\ \E n \in 1..MaxPolls, d \in 0..MaxPolls :
          \E s \in {step(Begin(cm), n, d)} :
             /\ cm' = s.m
             /\ cm_op' = Op("step", n, s.r)
    /\ UNCHANGED <<pc, batch_vars, parse_vars, engine_vars, a7_vars, host_vars>>

Status ==
    /\ pc = "cortexm"
    /\ \E s \in {status(Begin(cm))} :
          /\ cm' = s.m
          /\ cm_op' = Op("status", 0, s.r)
    /\ UNCHANGED <<pc, batch_vars, parse_vars, engine_vars, a7_vars, host_vars>>

CoreStart ==
    /\ pc = "cortexm"
    /\ \E s \in {cortex_m_core_start(Begin(cm))} :
          /\ cm' = s.m
          /\ cm_op' = Op("core_start", 0, s.r)
    /\ UNCHANGED <<pc, batch_vars, parse_vars, engine_vars, a7_vars, host_vars>>

\* the target on its own: a requested halt or a step completes
TargetHalts ==
    /\ pc = "cortexm"
    /\ cm.halt_pending
    /\ cm' = EnterDebug(cm, DFSR_HALTED)
    /\ cm_op' = Op("target", 0, CoreOk(0, CoreStatus_Unknown))
    /\ UNCHANGED <<pc, batch_vars, parse_vars, engine_vars, a7_vars, host_vars>>

\* the running program reaches a breakpoint
TargetBreakpoint ==
    /\ pc = "cortexm"
    /\ cm.flags = {} /\ cm.c_debugen /\ ~ cm.stepping
    /\ cm' = EnterDebug(cm, DFSR_BKPT)
    /\ cm_op' = Op("target", 0, CoreOk(0, CoreStatus_Unknown))
    /\ UNCHANGED <<pc, batch_vars, parse_vars, engine_vars, a7_vars, host_vars>>

\* the running program sleeps, wakes up or locks up
TargetSleeps ==
    /\ pc = "cortexm"
    /\ cm.flags = {}
    /\ cm' = [cm EXCEPT !.flags = {S_SLEEP}]
    /\ cm_op' = Op("target", 0, CoreOk(0, CoreStatus_Unknown))
    /\ UNCHANGED <<pc, batch_vars, parse_vars, engine_vars, a7_vars, host_vars>>

TargetWakes ==
    /\ pc = "cortexm"
    /\ cm.flags = {S_SLEEP}
    /\ cm' = [cm EXCEPT !.flags = {}]
    /\ cm_op' = Op("target", 0, CoreOk(0, CoreStatus_Unknown))
    /\ UNCHANGED <<pc, batch_vars, parse_vars, engine_vars, a7_vars, host_vars>>

TargetLocksUp ==
    /\ pc = "cortexm"
    /\ cm.flags = {}
    /\ cm' = [cm EXCEPT !.flags = {S_LOCKUP}]
    /\ cm_op' = Op("target", 0, CoreOk(0, CoreStatus_Unknown))
    /\ UNCHANGED <<pc, batch_vars, parse_vars, engine_vars, a7_vars, host_vars>>

NextCortexM ==
    \/ Halt
    \/ Run
    \/ StepCore
    \/ Status
    \/ CoreStart
    \/ TargetHalts
    \/ TargetBreakpoint
    \/ TargetSleeps
    \/ TargetWakes
    \/ TargetLocksUp

SpecCortexM == InitCortexM /\ [][NextCortexM]_vars

-----------------------------------------------------------------------------
(* Specification SpecStatus: status() on every DHCSR status word, DFSR      *)
(* value and cached status                                                 *)

CachedStatuses ==
    {CoreStatus_Running, CoreStatus_Sleeping, CoreStatus_LockedUp, CoreStatus_Unknown}
       \cup {CoreStatus_Halted(r) : r \in HaltReasons}

InitStatus ==
    /\ pc = "cortexm"
    /\ \E f \in SUBSET StatusFlags, d \in DfsrValues, c \in CachedStatuses :
          cm = [attached |-> TRUE, flags |-> f, halt_pending |-> FALSE,
                stepping |-> FALSE, c_debugen |-> TRUE, dfsr |-> d,
                bp_enable |-> FALSE, comps |-> NoBreakpoints, pc_reg |-> 0,
                current_state |-> c, hw_breakpoints_enabled |-> FALSE, log |-> <<>>]
    /\ cm_op = Op("new", 0, CoreOk(0, CoreStatus_Unknown))
    /\ IdleBatch
    /\ IdleParse
    /\ IdleEngine
    /\ IdleArmv7a
    /\ IdleHost

NextStatus == Status

SpecStatus == InitStatus /\ [][NextStatus]_vars

-----------------------------------------------------------------------------
(* Hardware breakpoints: BpCompx, Armv6m and Core                          *)

\* breakpoint comparators of the unit (BP_CTRL.NUM_CODE)
NumCode == 2
\* first address set_hw_breakpoint refuses: 0x2000_0000
CODE_REGION_END == 536870912
COMP_MASK == 134217727
\* no breakpoint in a comparator: None
None == -1

\* BpCompx: bp_match is bits 31:30, comp bits 28:2, enable bit 0
BpCompx(bp_match, comp, enable) ==
    LET low == comp * 4 + (IF enable THEN 1 ELSE 0)
    IN  Word(bp_match * 16384 + low \div 65536, low % 65536)
BpCompx_bp_match(v) == v.hi \div 16384
BpCompx_comp(v) == ((v.hi % 8192) * 65536 + v.lo) \div 4
BpCompx_enable(v) == v.lo % 2 = 1
BpCtrl_num_code(v) == (v.lo \div 16) % 16

\* results that carry the list of breakpoints
BpOk(list) == [kind |-> "ok", value |-> 0, status |-> CoreStatus_Unknown,
               err |-> "none", list |-> list]
BpErr(err) == [kind |-> "err", value |-> 0, status |-> CoreStatus_Unknown,
               err |-> err, list |-> <<>>]

\* BpCompx::get_breakpoint_comparator
get_breakpoint_comparator(register_value) ==
    IF BpCompx_bp_match(register_value) = 1
    THEN BpOk(<<BpCompx_comp(register_value) * 4>>)
    ELSE IF BpCompx_bp_match(register_value) = 2
    THEN BpOk(<<BpCompx_comp(register_value) * 4 + 2>>)
    ELSE BpErr("ArchitectureSpecific")

\* available_breakpoint_units
available_breakpoint_units(m) ==
    Step(read_word_32(m, "BP_CTRL", 0),
         CoreOk(BpCtrl_num_code(ValueOf(m, "BP_CTRL", 0)), CoreStatus_Unknown))

\* hw_breakpoints: the loop over the units from bp_unit_index on
RECURSIVE hw_breakpoints_from(_, _, _, _)
hw_breakpoints_from(m, bp_unit_index, num_hw_breakpoints, breakpoints) ==
    IF bp_unit_index >= num_hw_breakpoints THEN Step(m, BpOk(breakpoints))
    ELSE LET register_value == ValueOf(m, "BP_COMP", bp_unit_index)
             m1 == read_word_32(m, "BP_COMP", bp_unit_index)
             breakpoint == get_breakpoint_comparator(register_value)
         IN  IF BpCompx_enable(register_value)
             THEN IF breakpoint.kind = "err" THEN Step(m1, breakpoint)
                  ELSE hw_breakpoints_from(m1, bp_unit_index + 1, num_hw_breakpoints,
                                           Append(breakpoints, breakpoint.list[1]))
             ELSE hw_breakpoints_from(m1, bp_unit_index + 1, num_hw_breakpoints,
                                      Append(breakpoints, None))
hw_breakpoints(m) ==
    LET n == available_breakpoint_units(m)
    IN  hw_breakpoints_from(n.m, 0, n.r.value, <<>>)

\* a variant of set_hw_breakpoint that always matches the lower halfword
set_hw_breakpoint_LowerHalfword(m, bp_register_index, addr) ==
    IF addr >= CODE_REGION_END THEN Step(m, BpErr("ArchitectureSpecific"))
    ELSE LET value == BpCompx(1, (addr \div 4) % (COMP_MASK + 1), TRUE)
         IN  Step(write_word_32(m, "BP_COMP", bp_register_index, value), BpOk(<<>>))
\* Armv6m::set_hw_breakpoint
set_hw_breakpoint(m, bp_register_index, addr) ==
    IF addr >= CODE_REGION_END THEN Step(m, BpErr("ArchitectureSpecific"))
    ELSE LET bp_match == IF addr % 4 < 2 THEN 1 ELSE 2
             value == BpCompx(bp_match, (addr \div 4) % (COMP_MASK + 1), TRUE)
         IN  Step(write_word_32(m, "BP_COMP", bp_register_index, value), BpOk(<<>>))

\* Armv6m::clear_hw_breakpoint
clear_hw_breakpoint(m, bp_unit_index) ==
    Step(write_word_32(m, "BP_COMP", bp_unit_index, BpCompx(0, 0, FALSE)), BpOk(<<>>))

\* iter().position(): the index of the first element that is the address
Positions(list, address) == { i \in 1..Len(list) : list[i] = address }
position(list, address) ==
    IF Positions(list, address) = {} THEN None
    ELSE (CHOOSE i \in Positions(list, address) :
             \A j \in Positions(list, address) : i <= j) - 1

\* Core::find_free_breakpoint_comparator_index
find_free_breakpoint_comparator_index(m) ==
    LET h == hw_breakpoints(m)
    IN  IF h.r.kind = "err" THEN h
        ELSE IF position(h.r.list, None) = None THEN Step(h.m, BpErr("Other(No available hardware breakpoints)"))
        ELSE Step(h.m, CoreOk(position(h.r.list, None), CoreStatus_Unknown))

\* Core::set_hw_breakpoint
Core_set_hw_breakpoint(m, address) ==
    LET m0 == IF ~ m.hw_breakpoints_enabled THEN enable_breakpoints(m, TRUE).m ELSE m
        h == hw_breakpoints(m0)
    IN  IF h.r.kind = "err" THEN h
        ELSE IF position(h.r.list, address) # None
        THEN set_hw_breakpoint(h.m, position(h.r.list, address), address)
        ELSE LET f == find_free_breakpoint_comparator_index(h.m)
             IN  IF f.r.kind = "err" THEN f
                 ELSE set_hw_breakpoint(f.m, f.r.value, address)

\* Core::clear_hw_breakpoint
Core_clear_hw_breakpoint(m, address) ==
    LET h == hw_breakpoints(m)
        bp_position == position(h.r.list, address)
    IN  IF h.r.kind = "err" THEN h
        ELSE IF bp_position # None THEN clear_hw_breakpoint(h.m, bp_position)
        ELSE Step(h.m, BpErr("Other(No breakpoint found at address)"))

-----------------------------------------------------------------------------
(* Specification SpecBreakpoints: breakpoints are set and cleared on a     *)
(* halted core whose comparators hold anything an earlier session left     *)

\* addresses asked for: 0x0, 0x2, 0x3, 0x1FFF_FFFE, 0x2000_0000
BreakpointAddresses == {0, 2, 3, 536870910, CODE_REGION_END}

\* what a comparator may hold when the core is attached
PriorComparators ==
    {BpCompx(0, 0, FALSE), BpCompx(1, 1, FALSE), BpCompx(0, 0, TRUE), BpCompx(3, 1, TRUE)}
       \cup {BpCompx(IF a % 4 < 2 THEN 1 ELSE 2, a \div 4, TRUE) :
                a \in {a \in BreakpointAddresses : a < CODE_REGION_END}}

NoBefore == BpErr("none")
BpOp(name, arg, r, before) ==
    [name |-> name, arg |-> arg, result |-> r, before |-> before, index |-> 0]

InitBreakpoints ==
    /\ pc = "breakpoints"
    /\ \E c \in [1..NumCode -> PriorComparators], b \in BOOLEAN, e \in BOOLEAN :
          /\ e => b
          /\ cm = [attached |-> TRUE, flags |-> {S_HALT}, halt_pending |-> FALSE,
                   stepping |-> FALSE, c_debugen |-> TRUE, dfsr |-> 0,
                   bp_enable |-> b, comps |-> c, pc_reg |-> 0,
                   current_state |-> CoreStatus_Halted("Request"),
                   hw_breakpoints_enabled |-> e, log |-> <<>>]
    /\ cm_op = BpOp("new", 0, BpOk(<<>>), NoBefore)
    /\ IdleBatch
    /\ IdleParse
    /\ IdleEngine
    /\ IdleArmv7a
    /\ IdleHost

\* Core::set_hw_breakpoint(address); before is what hw_breakpoints() gave
\* when it was called
SetHwBreakpoint ==
    /\ pc = "breakpoints"
    /\ \E address \in BreakpointAddresses :
          \E s \in {Core_set_hw_breakpoint(Begin(cm), address)} :
             /\ cm' = s.m
             /\ cm_op' = BpOp("set_hw_breakpoint", address, s.r, hw_breakpoints(cm).r)
    /\ UNCHANGED <<pc, batch_vars, parse_vars, engine_vars, a7_vars, host_vars>>

\* Core::clear_hw_breakpoint(address); right after a set of the same address
\* that returned Ok, before is still what hw_breakpoints() gave before the set
ClearHwBreakpoint ==
    /\ pc = "breakpoints"
    /\ \E address \in BreakpointAddresses :
          \E s \in {Core_clear_hw_breakpoint(Begin(cm), address)} :
             /\ cm' = s.m
             /\ cm_op' = BpOp("clear_hw_breakpoint", address, s.r,
                              IF /\ cm_op.name = "set_hw_breakpoint"
                                 /\ cm_op.arg = address
                                 /\ cm_op.result.kind = "ok"
                              THEN cm_op.before ELSE NoBefore)
    /\ UNCHANGED <<pc, batch_vars, parse_vars, engine_vars, a7_vars, host_vars>>

\* Armv6m::set_hw_breakpoint(bp_register_index, addr)
SetComparator ==
    /\ pc = "breakpoints"
    /\ \E bp_register_index \in 0..(NumCode - 1), addr \in BreakpointAddresses :
          \E s \in {set_hw_breakpoint(Begin(cm), bp_register_index, addr)} :
             /\ cm' = s.m
             /\ cm_op' = [BpOp("set_comparator", addr, s.r, NoBefore)
                           EXCEPT !.index = bp_register_index]
    /\ UNCHANGED <<pc, batch_vars, parse_vars, engine_vars, a7_vars, host_vars>>

\* Armv6m::hw_breakpoints()
HwBreakpoints ==
    /\ pc = "breakpoints"
    /\ \E s \in {hw_breakpoints(Begin(cm))} :
          /\ cm' = s.m
          /\ cm_op' = BpOp("hw_breakpoints", 0, s.r, NoBefore)
    /\ UNCHANGED <<pc, batch_vars, parse_vars, engine_vars, a7_vars, host_vars>>

NextBreakpoints ==
    \/ SetHwBreakpoint
    \/ ClearHwBreakpoint
    \/ SetComparator
    \/ HwBreakpoints

SpecBreakpoints == InitBreakpoints /\ [][NextBreakpoints]_vars

-----------------------------------------------------------------------------
(* Reset and halt: Armv6m::reset_and_halt and the default debug sequence   *)
(* of architecture/arm/sequences/mod.rs                                    *)

\* Demcr::set_vc_corereset
set_vc_corereset(demcr, on) ==
    Word(demcr.hi, (demcr.lo - (demcr.lo % 2)) + (IF on THEN VC_CORERESET ELSE 0))

\* Aircr(0) with vectkey() and set_sysresetreq(true)
Aircr_reset == Word(VECTKEY, SYSRESETREQ)

\* cortex_m_reset_catch_set
cortex_m_reset_catch_set(m) ==
    LET demcr == ValueOf(m, "DEMCR", 0)
        m1 == read_word_32(m, "DEMCR", 0)
        m2 == write_word_32(m1, "DEMCR", 0, set_vc_corereset(demcr, TRUE))
    IN  read_word_32(m2, "DHCSR", 0)

\* a variant of cortex_m_reset_catch_clear that writes DEMCR back as read
cortex_m_reset_catch_clear_Keep(m) ==
    write_word_32(read_word_32(m, "DEMCR", 0), "DEMCR", 0, ValueOf(m, "DEMCR", 0))
\* cortex_m_reset_catch_clear
cortex_m_reset_catch_clear(m) ==
    LET demcr == ValueOf(m, "DEMCR", 0)
        m1 == read_word_32(m, "DEMCR", 0)
    IN  write_word_32(m1, "DEMCR", 0, set_vc_corereset(demcr, FALSE))

\* the loop of cortex_m_reset_system: the 500 ms leave room for n polls of
\* DHCSR; the processor leaves the reset after d polls
RECURSIVE reset_poll(_, _, _)
reset_poll(m, n, d) ==
    IF n = 0 THEN Step(m, CoreErr("Timeout"))
    ELSE LET t == IF S_RESET_ST \in m.flags /\ d = 0 THEN ResetLeft(m) ELSE m
             dhcsr_val == ValueOf(t, "DHCSR", 0)
             m1 == read_word_32(t, "DHCSR", 0)
         IN  IF ~ Bit(dhcsr_val.hi, S_RESET_ST)
             THEN Step(m1, CoreOk(0, CoreStatus_Unknown))
             ELSE reset_poll(m1, n - 1, Max(d - 1, 0))

\* cortex_m_reset_system
cortex_m_reset_system(m, n, d) ==
    reset_poll(write_word_32(m, "AIRCR", 0, Aircr_reset), n, d)

\* reset_and_halt
reset_and_halt(m, n, d) ==
    LET m1 == cortex_m_reset_catch_set(m)
        s2 == cortex_m_reset_system(m1, n, d)
    IN  IF s2.r.kind = "err" THEN s2
        ELSE LET s3 == status(s2.m)
                 xpsr_value == ValueOf(s3.m, "XPSR", 0)
                 m4 == read_core_reg(s3.m, "XPSR")
                 m5 == IF ~ Bit(xpsr_value.hi, XPSR_THUMB)
                       THEN write_core_reg(m4, "XPSR",
                                Word(xpsr_value.hi + XPSR_THUMB, xpsr_value.lo))
                       ELSE m4
                 m6 == cortex_m_reset_catch_clear(m5)
                 pc_value == ValueOf(m6, "PC", 0)
                 m7 == read_core_reg(m6, "PC")
             IN  Step(m7, CoreOk(pc_value.lo, m7.current_state))

-----------------------------------------------------------------------------
(* Specification SpecReset: a debugger resets one Cortex-M0 core            *)

\* values of DEMCR and of XPSR; the reset loads XPSR from the reset vector
DemcrValues == {Zero, Word(0, VC_CORERESET), Word(256, 1024), Word(256, 1024 + VC_CORERESET)}
XpsrValues == {Zero, Word(XPSR_THUMB, 0), Word(XPSR_THUMB + 24576, 3)}

ResetTargets ==
    { [attached |-> TRUE, flags |-> f, halt_pending |-> FALSE, stepping |-> FALSE,
       c_debugen |-> e, dfsr |-> 0, bp_enable |-> FALSE, comps |-> NoBreakpoints,
       pc_reg |-> p, current_state |-> CoreStatus_Unknown,
       hw_breakpoints_enabled |-> FALSE, log |-> <<>>,
       demcr |-> dm, xpsr |-> x, reset_xpsr |-> rx] :
         f \in {{}, {S_HALT}, {S_SLEEP}}, e \in BOOLEAN, p \in 0..MaxPc,
         dm \in DemcrValues, x \in XpsrValues, rx \in XpsrValues }

InitReset ==
    /\ pc = "reset"
    /\ \E t \in ResetTargets :
          /\ Attachable(t)
          /\ cm = Armv6m_new(t)
    /\ cm_op = Op("new", 0, CoreOk(0, CoreStatus_Unknown))
    /\ IdleBatch
    /\ IdleParse
    /\ IdleEngine
    /\ IdleArmv7a
    /\ IdleHost

ResetAndHalt ==
    /\ pc = "reset"
    /\ \E n \in 1..MaxPolls, d \in 1..MaxPolls :
          \E s \in {reset_and_halt(Begin(cm), n, d)} :
             /\ cm' = s.m
             /\ cm_op' = Op("reset_and_halt", n, s.r)
    /\ UNCHANGED <<pc, batch_vars, parse_vars, engine_vars, a7_vars, host_vars>>

\* the debugger enables debug and requests a halt, as Armv6m::halt writes
ResetHalt ==
    /\ pc = "reset"
    /\ \E n \in 0..MaxPolls, d \in 0..MaxPolls :
          \E s \in {halt(Begin(cm), n, d)} :
             /\ cm' = s.m
             /\ cm_op' = Op("halt", n, s.r)
    /\ UNCHANGED <<pc, batch_vars, parse_vars, engine_vars, a7_vars, host_vars>>

NextReset ==
    \/ ResetAndHalt
    \/ ResetHalt

SpecReset == InitReset /\ [][NextReset]_vars

-----------------------------------------------------------------------------
(* Debug port start: ArmDebugSequence::debug_port_start                    *)
(*                                                                         *)
(* The registers of the debug port are records of their fields.            *)

\* Abort(0) with the four clear bits set
Abort_clear_all == [orunerrclr |-> TRUE, wderrclr |-> TRUE, stkerrclr |-> TRUE,
                    stkcmpclr |-> TRUE]
\* Ctrl(0) with both power-up requests and the given mask_lane
Ctrl_power_up(mask_lane) ==
    [cdbgpwrupreq |-> TRUE, csyspwrupreq |-> TRUE, mask_lane |-> mask_lane]
ALL_LANES == 15

\* what CTRL/STAT reads as
CtrlValue(m) ==
    [csyspwrupack |-> m.csyspwrupack, cdbgpwrupack |-> m.cdbgpwrupack,
     cdbgpwrupreq |-> m.cdbgpwrupreq, csyspwrupreq |-> m.csyspwrupreq,
     mask_lane |-> m.mask_lane]
powered_up(ctrl) == ctrl.csyspwrupack /\ ctrl.cdbgpwrupack

\* write_dp_register: the write and what it does to the debug port
write_dp_register(m, reg, value) ==
    LET t == CASE reg = "ABORT" ->
                    [m EXCEPT !.sticky = @ \ ((IF value.orunerrclr THEN {"orun"} ELSE {})
                                              \cup (IF value.wderrclr THEN {"wderr"} ELSE {})
                                              \cup (IF value.stkerrclr THEN {"err"} ELSE {})
                                              \cup (IF value.stkcmpclr THEN {"cmp"} ELSE {}))]
               [] reg = "SELECT" -> [m EXCEPT !.select = value]
               [] reg = "CTRL" -> [m EXCEPT !.cdbgpwrupreq = value.cdbgpwrupreq,
                                            !.csyspwrupreq = value.csyspwrupreq,
                                            !.mask_lane = value.mask_lane]
    IN  Logged(t, Access("write", reg, 0, value))

\* read_dp_register::<Ctrl>
read_dp_register(m) == Logged(m, Access("read", "CTRL", 0, CtrlValue(m)))

\* the target powers the debug and system domains up as requested
PoweredUp(m) ==
    [m EXCEPT !.cdbgpwrupack = m.cdbgpwrupreq /\ m.powers,
              !.csyspwrupack = m.csyspwrupreq /\ m.powers]

\* the loop of debug_port_start: its time budget leaves room for n reads of
\* CTRL/STAT; the target answers the requests after d reads
RECURSIVE power_poll(_, _, _)
power_poll(m, n, d) ==
    IF n = 0 THEN Step(m, CoreErr("Timeout"))
    ELSE LET t == IF d = 0 THEN PoweredUp(m) ELSE m
             ctrl == CtrlValue(t)
             m1 == read_dp_register(t)
         IN  IF powered_up(ctrl) THEN Step(m1, CoreOk(0, CoreStatus_Unknown))
             ELSE power_poll(m1, n - 1, Max(d - 1, 0))

\* debug_port_start; the power stays up until the last read of CTRL/STAT
\* when stays is true
debug_port_start(m, n, d, stays) ==
    LET m1 == write_dp_register(m, "ABORT", Abort_clear_all)
        m2 == write_dp_register(m1, "SELECT", 0)
        ctrl == CtrlValue(m2)
        m3 == read_dp_register(m2)
        powered_down == ~ powered_up(ctrl)
    IN  IF powered_down
        THEN LET m4 == write_dp_register(m3, "CTRL", Ctrl_power_up(0))
                 p == power_poll(m4, n, d)
                 m5 == write_dp_register(p.m, "CTRL", Ctrl_power_up(ALL_LANES))
                 t == IF stays THEN m5
                      ELSE [m5 EXCEPT !.cdbgpwrupack = FALSE, !.csyspwrupack = FALSE]
                 ctrl_reg == CtrlValue(t)
                 m6 == read_dp_register(t)
             IN  IF p.r.kind = "err" THEN p
                 ELSE IF ~ powered_up(ctrl_reg) THEN Step(m6, CoreErr("TargetPowerUpFailed"))
                 ELSE Step(m6, CoreOk(0, CoreStatus_Unknown))
        ELSE Step(m3, CoreOk(0, CoreStatus_Unknown))

-----------------------------------------------------------------------------
(* Specification SpecDebugPort: sessions start the debug port of a target   *)

\* the debug ports met: powered up by an earlier session or not, with
\* sticky flags left over
DebugPorts ==
    { [name |-> "debug_port", cdbgpwrupack |-> a[1], csyspwrupack |-> a[2],
       cdbgpwrupreq |-> a[1], csyspwrupreq |-> a[2], mask_lane |-> l, sticky |-> s,
       select |-> sel, powers |-> p, log |-> <<>>] :
         a \in {<<FALSE, FALSE>>, <<TRUE, FALSE>>, <<TRUE, TRUE>>},
         l \in {0, ALL_LANES}, s \in {{}, {"err"}, {"orun", "cmp"}},
         sel \in {0, 1}, p \in BOOLEAN }

InitDebugPort ==
    /\ pc = "debug_port"
    /\ cm \in DebugPorts
    /\ cm_op = Op("new", 0, CoreOk(0, CoreStatus_Unknown))
    /\ IdleBatch
    /\ IdleParse
    /\ IdleEngine
    /\ IdleArmv7a
    /\ IdleHost

DebugPortStart ==
    /\ pc = "debug_port"
    /\ \E n \in 1..MaxPolls, d \in 0..MaxPolls, stays \in BOOLEAN :
          \E s \in {debug_port_start(Begin(cm), n, d, stays)} :
             /\ cm' = s.m
             /\ cm_op' = Op("debug_port_start", n, s.r)
    /\ UNCHANGED <<pc, batch_vars, parse_vars, engine_vars, a7_vars, host_vars>>

\* between two sessions: the target is powered off and on again
PowerCycled ==
    /\ pc = "debug_port"
    /\ cm_op.name = "debug_port_start"
    /\ cm' = [cm EXCEPT !.cdbgpwrupack = FALSE, !.csyspwrupack = FALSE,
                        !.cdbgpwrupreq = FALSE, !.csyspwrupreq = FALSE,
                        !.mask_lane = 0, !.select = 0, !.sticky = {}, !.log = <<>>]
    /\ cm_op' = Op("power_cycle", 0, CoreOk(0, CoreStatus_Unknown))
    /\ UNCHANGED <<pc, batch_vars, parse_vars, engine_vars, a7_vars, host_vars>>

NextDebugPort ==
    \/ DebugPortStart
    \/ PowerCycled

SpecDebugPort == InitDebugPort /\ [][NextDebugPort]_vars

-----------------------------------------------------------------------------
(* JTAG: build_jtag_payload_and_address, perform_jtag_transfer,            *)
(* perform_jtag_transfers                                                  *)

\* "Constant to be written to ABORT"
JTAG_ABORT_VALUE == 8
\* "IR values for JTAG registers"
JTAG_ABORT_IR_VALUE == 8
JTAG_DEBUG_PORT_IR_VALUE == 10
JTAG_ACCESS_PORT_IR_VALUE == 11
JTAG_STATUS_WAIT == 1
JTAG_STATUS_OK == 2
JTAG_DR_BIT_LENGTH == 35

build_jtag_payload_and_address(transfer) ==
    IF is_abort(transfer)
    THEN [payload |-> JTAG_ABORT_VALUE, address |-> JTAG_ABORT_IR_VALUE]
    ELSE [payload |-> (transfer.value * 8)
                      + (((transfer.address \div 8) % 2) * 8) \div 2
                      + (((transfer.address \div 4) % 2) * 4) \div 2
                      + (IF transfer.direction = "Read" THEN 1 ELSE 0),
          address |-> IF transfer.port = "DP" THEN JTAG_DEBUG_PORT_IR_VALUE
                      ELSE JTAG_ACCESS_PORT_IR_VALUE]

\* u64::to_le_bytes of a payload below 2^31
u64_to_le_bytes(p) ==
    <<p % 256, (p \div 256) % 256, (p \div 65536) % 256, p \div 16777216, 0, 0, 0, 0>>

\* a little-endian byte sequence as a number
RECURSIVE le_value(_)
le_value(bytes) == IF bytes = <<>> THEN 0 ELSE Head(bytes) + 256 * le_value(Tail(bytes))

\* the loop of parse_jtag_response on the eight bytes of received:
\* received >>= 8; received |= v << 32
RECURSIVE parse_jtag_bytes(_, _)
parse_jtag_bytes(received, data) ==
    IF data = <<>> THEN received
    ELSE parse_jtag_bytes([Tail(received) \o <<0>> EXCEPT ![5] = Head(data)], Tail(data))

parse_jtag_response(data) == le_value(parse_jtag_bytes(<<0, 0, 0, 0, 0, 0, 0, 0>>, data))

\* JTAGAccess::write_register on the probe: IR is set to address, the low
\* len bits of data are shifted through DR, and the bits shifted out, the
\* answer of the target to the scan before, come back as five bytes
write_register(probe, address, data, len, idle) ==
    LET k == Len(probe.scans) + 1
        captured == probe.io[k]
    IN  [probe |-> [probe EXCEPT !.scans =
                        Append(@, [ir |-> address, dr |-> le_value(SubSeq(data, 1, 5)),
                                   len |-> len, captured |-> captured, idle |-> idle])],
         result |-> SubSeq(u64_to_le_bytes(captured), 1, 5)]

\* perform_jtag_transfer: Ok((value, status))
perform_jtag_transfer(probe, transfer) ==
    LET built == build_jtag_payload_and_address(transfer)
        data == u64_to_le_bytes(built.payload)
        w == write_register(probe, built.address, data, JTAG_DR_BIT_LENGTH,
                            transfer.idle_cycles_after)
        received == parse_jtag_response(w.result)
        received_value == received \div 8
        jtag_status == received % 8
    IN  IF is_abort(transfer) THEN [probe |-> w.probe, value |-> 0, status |-> "Ok"]
        ELSE [probe |-> w.probe, value |-> received_value,
              status |-> CASE jtag_status = JTAG_STATUS_WAIT -> "WaitResponse"
                           [] jtag_status = JTAG_STATUS_OK -> "Ok"
                           [] OTHER -> "NoAcknowledge"]

\* the assignment to transfers[i] of the response that came with a later scan
Responded(xfers, i, r) ==
    IF is_abort(xfers[i]) \/ is_rdbuff(xfers[i])
    THEN [xfers EXCEPT ![i].status = "Ok"]
    ELSE [xfers EXCEPT
            ![i].status = r.status,
            ![i].value = IF r.status = "Ok" /\ xfers[i].direction = "Read"
                         THEN r.value ELSE @]

\* the loop of perform_jtag_transfers from index i (1-based here)
RECURSIVE jtag_loop(_, _, _)
jtag_loop(probe, xfers, i) ==
    IF i > Len(xfers) THEN [probe |-> probe, transfers |-> xfers]
    ELSE LET r == perform_jtag_transfer(probe, xfers[i])
         IN  jtag_loop(r.probe, IF i > 1 THEN Responded(xfers, i - 1, r) ELSE xfers,
                       i + 1)

\* "We need to do a final read to get the status for the last transaction"
jtag_final_read(s) ==
    LET last == Len(s.transfers)
        last_transfer == s.transfers[last]
    IN  IF is_abort(last_transfer) \/ is_rdbuff(last_transfer)
        THEN [s EXCEPT !.transfers[last].status = "Ok"]
        ELSE LET r == perform_jtag_transfer(s.probe, RdBuffRead)
             IN  [probe |-> r.probe, transfers |-> Responded(s.transfers, last, r)]

\* "Mark OK/FAULT transactions as failed"
MarkedFailed(xfers) ==
    [i \in DOMAIN xfers |->
        IF xfers[i].status = "Ok" THEN [xfers[i] EXCEPT !.status = "FaultResponse"]
        ELSE xfers[i]]

\* "Check CTRL/STATUS to make sure OK/FAULT meant OK"
jtag_check_ctrl(s) ==
    IF is_abort(s.transfers[Len(s.transfers)]) THEN s
    ELSE LET r1 == perform_jtag_transfer(s.probe, DapTransfer_read("DP", Ctrl_ADDRESS))
             r2 == perform_jtag_transfer(r1.probe, RdBuffRead)
         IN  IF Ctrl_sticky_err(r2.value)
             THEN [probe |-> perform_jtag_transfer(r2.probe,
                                 DapTransfer_write("DP", Ctrl_ADDRESS, r2.value)).probe,
                   transfers |-> MarkedFailed(s.transfers)]
             ELSE [probe |-> r2.probe, transfers |-> s.transfers]

perform_jtag_transfers(probe, xfers) ==
    jtag_check_ctrl(jtag_final_read(jtag_loop(probe, xfers, 1)))

\* perform_transfers with active_protocol() = Jtag
perform_transfers_jtag(probe, ts, idle_cycles) ==
    LET built == BuildFinal(ts, idle_cycles)
        indices == [i \in 1..Len(ts) |->
                       ResultIndex("Jtag", is_ap_read(ts[i]), response_pending(ts[i]),
                                   built.pushed_at[i])]
        done == perform_jtag_transfers(probe, built.final)
    IN  [probe |-> done.probe,
         transfers |-> RetrieveResults(ts, done.transfers, indices),
         final_transfers |-> done.transfers,
         result_indices |-> indices,
         pushed_at |-> built.pushed_at]

-----------------------------------------------------------------------------
(* Specification SpecTransfers: perform_transfers over SWD and over JTAG   *)

\* most scans of one perform_jtag_transfers: two per logical transfer, the
\* final read, and three for the check of CTRL/STAT
MaxScans == 2 * MaxBatch + 4

\* the three status bits of a JTAG response
JtagStatusBits(kind) ==
    CASE kind = "OK" -> JTAG_STATUS_OK
      [] kind = "WAIT" -> JTAG_STATUS_WAIT
      [] kind = "FAULT" -> 7
      [] OTHER -> 0

\* what the target shifts out with each scan: status in bits [2:0], value
\* in bits [34:3]
JtagIo(acks, seed) ==
    [k \in DOMAIN acks |->
        JtagStatusBits(acks[k]) + 8 * ReadValues[((seed + k - 1) % Len(ReadValues)) + 1]]

JLink(io) == [name |-> "jlink", scans |-> <<>>, io |-> io]

InitTransfers ==
    /\ pc = "batch"
    /\ transfers \in Batches
    /\ idle_arg \in IdleChoices
    /\ final_transfers = <<>>
    /\ result_indices = <<>>
    /\ pushed_at = <<>>
    /\ cm = JLink(<<>>)
    /\ cm_op = Op("new", 0, CoreOk(0, CoreStatus_Unknown))
    /\ IdleParse
    /\ IdleEngine
    /\ IdleArmv7a
    /\ IdleHost

\* the caller hands the batch to perform_transfers, the probe set to SWD
PerformSwd ==
    /\ pc = "batch"
    /\ \E acks \in AckPatterns(Len(BuildFinal(transfers, idle_arg).final)),
          seed \in BatchSeeds :
          \E r \in {perform_transfers(transfers, idle_arg, SwdIo(acks, seed))} :
              /\ transfers' = r.transfers
              /\ final_transfers' = r.final_transfers
              /\ result_indices' = r.result_indices
              /\ pushed_at' = r.pushed_at
    /\ pc' = "batch_done"
    /\ cm_op' = Op("perform_transfers_swd", 0, CoreOk(0, CoreStatus_Unknown))
    /\ UNCHANGED <<cm, a7_vars, host_vars, idle_arg, parse_vars, engine_vars>>

\* the caller hands the batch to perform_transfers, the probe set to JTAG
PerformJtag ==
    /\ pc = "batch"
    /\ \E acks \in AckPatterns(MaxScans), seed \in Seeds :
          \E r \in {perform_transfers_jtag(JLink(JtagIo(acks, seed)), transfers, idle_arg)} :
              /\ transfers' = r.transfers
              /\ final_transfers' = r.final_transfers
              /\ result_indices' = r.result_indices
              /\ pushed_at' = r.pushed_at
              /\ cm' = [r.probe EXCEPT !.io = SubSeq(@, 1, Len(r.probe.scans))]
    /\ pc' = "batch_done"
    /\ cm_op' = Op("perform_transfers_jtag", 0, CoreOk(0, CoreStatus_Unknown))
    /\ UNCHANGED <<a7_vars, host_vars, idle_arg, parse_vars, engine_vars>>

NextTransfers ==
    \/ PerformSwd
    \/ PerformJtag

SpecTransfers == InitTransfers /\ [][NextTransfers]_vars

-----------------------------------------------------------------------------
(* IoSequence, build_swd_transfer, response_length                         *)

INPUT == FALSE
OUTPUT == TRUE

IoSequence_new == [io |-> <<>>, direction |-> <<>>]
add_output(seq, bit) ==
    [io |-> Append(seq.io, bit), direction |-> Append(seq.direction, OUTPUT)]
add_output_sequence(seq, bits) ==
    [io |-> seq.io \o bits,
     direction |-> seq.direction \o [i \in 1..Len(bits) |-> OUTPUT]]
add_input(seq) ==
    [io |-> Append(seq.io, FALSE), direction |-> Append(seq.direction, INPUT)]
add_input_sequence(seq, length) ==
    [io |-> seq.io \o [i \in 1..length |-> FALSE],
     direction |-> seq.direction \o [i \in 1..length |-> INPUT]]
IoSequence_extend(seq, other) ==
    [io |-> seq.io \o other.io, direction |-> seq.direction \o other.direction]

Xor(a, b) == a # b

\* the loop over the 32 data bits: bit = value & 1, parity ^= bit, value >>= 1
RECURSIVE add_data_bits(_, _, _, _)
add_data_bits(seq, value, parity, n) ==
    IF n = 0 THEN add_output(seq, parity)
    ELSE LET bit == value % 2 = 1
         IN  add_data_bits(add_output(seq, bit), value \div 2, Xor(parity, bit), n - 1)

\* direction is "Read", or "Write" with the value to write
build_swd_transfer(port, dir, value, address) ==
    LET port_bit == port = "AP"
        direction_bit == dir = "Read"
        a2 == (address \div 4) % 2 = 1
        a3 == (address \div 8) % 2 = 1
        idle == add_output(add_output(IoSequence_new, FALSE), FALSE)
        start == add_output(idle, TRUE)
        request == add_output(add_output(add_output(add_output(start, port_bit),
                                                    direction_bit), a2), a3)
        par == add_output(request, Xor(Xor(port_bit, direction_bit), Xor(a2, a3)))
        park == add_output(add_output(par, FALSE), TRUE)
        ack == add_input_sequence(add_input(park), 3)
    IN  IF dir = "Write"
        THEN add_data_bits(add_input(ack), value, FALSE, 32)
        ELSE add_input(add_input(add_input_sequence(ack, 32)))

response_length(dir) ==
    IF dir = "Read" THEN 2 + 8 + 3 + 32 + 1 + 2 ELSE 2 + 8 + 3 + 2 + 32 + 1

\* DapTransfer::io_sequence
io_sequence(t) ==
    LET seq == build_swd_transfer(t.port, t.direction, t.value, t.address)
    IN  IF t.idle_cycles_after > 0
        THEN add_output_sequence(seq, [i \in 1..t.idle_cycles_after |-> FALSE])
        ELSE seq

\* the sequence perform_swd_transfers sends: every transfer's sequence in
\* turn; starts[n] is where the n-th begins
RECURSIVE extended(_, _, _)
extended(seq, starts, ts) ==
    IF ts = <<>> THEN [seq |-> seq, starts |-> starts]
    ELSE extended(IoSequence_extend(seq, io_sequence(Head(ts))),
                  Append(starts, Len(seq.io)), Tail(ts))

\* read_index at the start of each turn of the loop that parses the result
RECURSIVE read_indices(_, _, _)
read_indices(read_index, acc, ts) ==
    IF ts = <<>> THEN acc
    ELSE read_indices(read_index + response_length(Head(ts).direction)
                                 + Head(ts).idle_cycles_after,
                      Append(acc, read_index), Tail(ts))

-----------------------------------------------------------------------------
(* Specification SpecSwdIo: the bits of small physical batches             *)

MaxSent == 2
SentValues == {6, 7}
SentAddresses == {0, 4, 8, 12}
SentIdle == {0, idle_cycles_after_transfer}
SentTransfers ==
    {[DapTransfer_read(p, a) EXCEPT !.idle_cycles_after = n] :
        p \in {"DP", "AP"}, a \in SentAddresses, n \in SentIdle}
    \cup {[DapTransfer_write(p, a, v) EXCEPT !.idle_cycles_after = n] :
        p \in {"DP", "AP"}, a \in SentAddresses, v \in SentValues, n \in SentIdle}
SentBatches == UNION {[1..n -> SentTransfers] : n \in 1..MaxSent}

InitSwdIo ==
    /\ pc = "swd_io"
    /\ final_transfers \in SentBatches
    /\ transfers = <<>>
    /\ result_indices = <<>>
    /\ pushed_at = <<>>
    /\ idle_arg = 0
    /\ cm = [name |-> "swd_io", io |-> <<>>, direction |-> <<>>, starts |-> <<>>,
             read_index |-> <<>>]
    /\ cm_op = Op("new", 0, CoreOk(0, CoreStatus_Unknown))
    /\ IdleParse
    /\ IdleEngine
    /\ IdleArmv7a
    /\ IdleHost

\* perform_swd_transfers builds the sequence, hands it to swd_io and walks
\* the result
SwdIoBuilt ==
    /\ pc = "swd_io"
    /\ \E e \in {extended(IoSequence_new, <<>>, final_transfers)} :
          cm' = [name |-> "swd_io", io |-> e.seq.io, direction |-> e.seq.direction,
                 starts |-> e.starts,
                 read_index |-> read_indices(0, <<>>, final_transfers)]
    /\ cm_op' = Op("swd_io", Len(final_transfers), CoreOk(0, CoreStatus_Unknown))
    /\ pc' = "swd_io_done"
    /\ UNCHANGED <<batch_vars, parse_vars, engine_vars, a7_vars, host_vars>>

NextSwdIo == SwdIoBuilt

SpecSwdIo == InitSwdIo /\ [][NextSwdIo]_vars

-----------------------------------------------------------------------------
(* ARMv7-A core control: architecture/arm/core/armv7a.rs                   *)
(*                                                                         *)
(* The core registers modelled are r0, r1 (one of r1..r14) and PC; their   *)
(* values are multiples of four.  An instruction is what it does to the    *)
(* registers of the target.                                                *)

\* largest register value written by the debugger, in words
MaxWord == 1
RegValues == { 4 * k : k \in 0..MaxWord }

R0 == 0
R1 == 1
PC == 15
CPSR == 16
REGISTER_CACHE_LEN == 17
CacheRegs == <<R0, R1, PC, CPSR>>
CoreRegs == {R0, R1, PC}

\* an entry of register_cache: None, or Some((value, writeback))
NoEntry == [some |-> FALSE, val |-> 0, writeback |-> FALSE]
Entry(val, writeback) == [some |-> TRUE, val |-> val, writeback |-> writeback]
\* register_cache has an entry for the CPSR as well
CachedRegs == CoreRegs \cup {CPSR}
EmptyCache == [i \in CachedRegs |-> NoEntry]

A7Ok(value, core_status) ==
    [kind |-> "ok", value |-> value, status |-> core_status, err |-> "none"]
A7Err(err) == [kind |-> "err", value |-> 0, status |-> CoreStatus_Unknown, err |-> err]
\* an instruction issued to a core that is not in Debug state never
\* completes: the call does not return
Hang == [kind |-> "hang", value |-> 0, status |-> CoreStatus_Unknown, err |-> "none"]
\* panic!: the process is aborted
Panic == [kind |-> "panic", value |-> 0, status |-> CoreStatus_Unknown, err |-> "none"]
Failed(s) == s.r.kind # "ok"

\* x is evaluated once and handed on
Once(S) == CHOOSE r \in S : TRUE
Let(x, Rest(_)) == Once({Rest(v) : v \in {x}})
\* the ? of the code: an error is returned, anything else is handed on
Try(r, Rest(_)) == Once({IF Failed(v) THEN v ELSE Rest(v) : v \in {r}})

\* Dbgbcr: the breakpoint type and the enable bit; every breakpoint the
\* driver programs matches on all modes and all bytes
BT_MATCH == 0
BT_MISMATCH == 4
Dbgbcr(bt, e) == [bt |-> bt, hmc |-> e, pmc |-> IF e THEN 3 ELSE 0,
                  bas |-> IF e THEN 15 ELSE 0, e |-> e]
Dbgbcr_zero == Dbgbcr(BT_MATCH, FALSE)

\* a write of a debug register, as the memory interface sees it,
\* and the cached core status at the time
RegWritten(m, reg, value) ==
    [m EXCEPT !.writes = Append(@, [reg |-> reg, value |-> value,
                                    cached |-> m.current_state.kind])]

\* the instructions used
build_mrc(rd) == [op |-> "mrc", rd |-> rd, rm |-> 0]
build_mcr(rd) == [op |-> "mcr", rd |-> rd, rm |-> 0]
build_mov(rd, rm) == [op |-> "mov", rd |-> rd, rm |-> rm]
build_bx(reg) == [op |-> "bx", rd |-> PC, rm |-> reg]
build_mrs(rd) == [op |-> "mrs", rd |-> rd, rm |-> 0]

\* LDC p14, c5, [Rn], #4 and STC p14, c5, [Rn], #4
build_ldc(reg) == [op |-> "ldc", rd |-> reg, rm |-> 0]
build_stc(reg) == [op |-> "stc", rd |-> reg, rm |-> 0]

\* u32::to_le_bytes and u32::from_le_bytes
to_le_bytes(w) == <<w % 256, (w \div 256) % 256, (w \div 65536) % 256, w \div 16777216>>
from_le_bytes(b) == b[1] + 256 * b[2] + 65536 * b[3] + 16777216 * b[4]

\* a register of the target gets a value
SetReg(m, reg, value) ==
    [m EXCEPT !.regs[reg] = value,
              !.log = Append(@, [ev |-> "set", reg |-> reg, value |-> value,
                                 regs |-> [m.regs EXCEPT ![reg] = value]])]

\* what an instruction does on the halted target: MRC moves DBGDTRRX to Rd
\* and empties it, MCR moves Rd to DBGDTRTX, MOV Rd, PC reads the PC as
\* PC + 8, BX sets the PC; LDC loads DBGDTRTX with the word at [Rn], STC
\* stores DBGDTRRX at [Rn], and both add 4 to Rn
Executed(m, instruction) ==
    CASE instruction.op = "mrc" -> [SetReg(m, instruction.rd, m.dtrrx) EXCEPT !.dtrrx = 0]
      [] instruction.op = "mcr" -> [m EXCEPT !.dtrtx = m.regs[instruction.rd]]
      [] instruction.op = "mov" -> SetReg(m, instruction.rd, m.regs[instruction.rm] + 8)
      [] instruction.op = "bx" -> SetReg(m, PC, m.regs[instruction.rm])
      [] instruction.op = "mrs" -> SetReg(m, instruction.rd, m.cpsr)
      [] instruction.op = "ldc" ->
             [SetReg(m, instruction.rd, m.regs[instruction.rd] + 4)
                EXCEPT !.dtrtx = from_le_bytes([i \in 1..4 |-> m.mem[m.regs[instruction.rd] + i - 1]])]
      [] instruction.op = "stc" ->
             [SetReg(m, instruction.rd, m.regs[instruction.rd] + 4)
                EXCEPT !.dtrrx = 0,
                       !.mem = [a \in DOMAIN m.mem |->
                                  IF a \in m.regs[instruction.rd]..(m.regs[instruction.rd] + 3)
                                  THEN to_le_bytes(m.dtrrx)[a - m.regs[instruction.rd] + 1]
                                  ELSE m.mem[a]]]

\* Dbgdscr::halt_reason
Dbgdscr_halt_reason(halted, moe) ==
    IF halted
    THEN CASE moe = 0 -> "Request"
           [] moe = 1 -> "Breakpoint"
           [] moe = 2 -> "Watchpoint"
           [] moe = 3 -> "Breakpoint"
           [] moe = 4 -> "External"
           [] moe = 5 -> "Exception"
           [] moe = 8 -> "Exception"
           [] moe = 10 -> "Breakpoint"
           [] OTHER -> "Unknown"
    ELSE "Unknown"

\* the core enters Debug state for the cause moe
A7EnterDebug(m, moe) == [m EXCEPT !.halted = TRUE, !.halt_pending = FALSE, !.moe = moe]

\* a variant of execute_instruction that sets ITREN before every instruction
execute_instruction_Eager(m, instruction) ==
    IF ~ is_halted(m.current_state) THEN Step(m, A7Err("NotHalted"))
    ELSE Let(RegWritten(m, "DBGDSCR", "itren"), LAMBDA m0 :
         Let(RegWritten([m0 EXCEPT !.itr_enabled = TRUE], "DBGITR", instruction), LAMBDA m1 :
         IF ~ m.halted THEN Step(m1, Hang)
         ELSE Step(Executed(m1, instruction), A7Ok(0, CoreStatus_Unknown))))
\* execute_instruction: DBGDSCR is written with ITREN set if itr_enabled is
\* not yet set, the instruction is written to DBGITR, and DBGDSCR is read
\* until InstrCompl_l is set
execute_instruction(m, instruction) ==
    IF ~ is_halted(m.current_state) THEN Step(m, A7Err("NotHalted"))
    ELSE Let(IF ~ m.itr_enabled THEN RegWritten(m, "DBGDSCR", "itren") ELSE m, LAMBDA m0 :
         Let(RegWritten([m0 EXCEPT !.itr_enabled = TRUE], "DBGITR", instruction), LAMBDA m1 :
         IF ~ m.halted THEN Step(m1, Hang)
         ELSE Step(Executed(m1, instruction), A7Ok(0, CoreStatus_Unknown))))

\* execute_instruction_with_result: reading DBGDTRTX empties it
execute_instruction_with_result(m, instruction) ==
    Try(execute_instruction(m, instruction), LAMBDA e :
    Step([e.m EXCEPT !.dtrtx = 0], A7Ok(e.m.dtrtx, CoreStatus_Unknown)))

\* execute_instruction_with_input
execute_instruction_with_input(m, instruction, value) ==
    Let([m EXCEPT !.dtrrx = value], LAMBDA m1 : execute_instruction(m1, instruction))

\* reset_register_cache
reset_register_cache(m) == [m EXCEPT !.register_cache = EmptyCache]

\* writeback_registers: the loop over the cache from its i-th entry on, then
\* reset_register_cache
RECURSIVE writeback_from(_, _)
writeback_from(m, i) ==
    IF i > Len(CacheRegs) THEN Step(reset_register_cache(m), A7Ok(0, CoreStatus_Unknown))
    ELSE LET reg == CacheRegs[i]
             cached == m.register_cache[reg]
         IN  IF cached.some /\ cached.writeback
             THEN IF reg \notin 0..15 THEN Step(m, Panic)
                  ELSE IF reg # PC
                  THEN Try(execute_instruction_with_input(m, build_mrc(reg), cached.val),
                           LAMBDA e : writeback_from(e.m, i + 1))
                  ELSE Try(execute_instruction_with_input(m, build_mrc(R0), cached.val),
                           LAMBDA e :
                       Try(execute_instruction(e.m, build_bx(R0)), LAMBDA b :
                       writeback_from(b.m, i + 1)))
             ELSE writeback_from(m, i + 1)
writeback_registers(m) == writeback_from(m, 1)

\* read_core_reg and prepare_r0_for_clobber call each other
RECURSIVE Armv7a_read_core_reg(_, _)

\* prepare_r0_for_clobber
prepare_r0_for_clobber(m) ==
    IF ~ m.register_cache[R0].some
    THEN Try(Armv7a_read_core_reg(m, R0), LAMBDA r :
         Step([r.m EXCEPT !.register_cache[R0] = Entry(r.r.value, TRUE)],
              A7Ok(0, CoreStatus_Unknown)))
    ELSE Step(m, A7Ok(0, CoreStatus_Unknown))

\* read_core_reg
Armv7a_read_core_reg(m, reg_num) ==
    IF reg_num < REGISTER_CACHE_LEN /\ m.register_cache[reg_num].some
    THEN Step(m, A7Ok(m.register_cache[reg_num].val, CoreStatus_Unknown))
    ELSE Try(CASE reg_num \in 0..14 ->
                      execute_instruction_with_result(m, build_mcr(reg_num))
                 [] reg_num = 15 ->
                      Try(prepare_r0_for_clobber(m), LAMBDA p :
                      Try(execute_instruction(p.m, build_mov(R0, PC)), LAMBDA e :
                      Try(execute_instruction_with_result(e.m, build_mcr(R0)),
                          LAMBDA pra_plus_offset :
                      Step(pra_plus_offset.m,
                           A7Ok(pra_plus_offset.r.value - 8, CoreStatus_Unknown)))))
                 [] reg_num = 16 ->
                      Try(prepare_r0_for_clobber(m), LAMBDA p :
                      Try(execute_instruction(p.m, build_mrs(R0)), LAMBDA e :
                      execute_instruction_with_result(e.m, build_mcr(R0))))
                 [] OTHER -> Step(m, A7Err("InvalidRegisterNumber")),
             LAMBDA res :
             Step([res.m EXCEPT !.register_cache[reg_num] = Entry(res.r.value, FALSE)],
                  res.r))

\* write_core_reg
Armv7a_write_core_reg(m, reg_num, value) ==
    IF reg_num >= REGISTER_CACHE_LEN THEN Step(m, A7Err("InvalidRegisterNumber"))
    ELSE Step([m EXCEPT !.register_cache[reg_num] = Entry(value, TRUE)],
              A7Ok(0, CoreStatus_Unknown))

\* status
Armv7a_status(m) ==
    IF m.halted
    THEN LET reason == Dbgdscr_halt_reason(m.halted, m.moe)
         IN  Step([m EXCEPT !.current_state = CoreStatus_Halted(reason)],
                  A7Ok(0, CoreStatus_Halted(reason)))
    ELSE Step([m EXCEPT !.current_state = CoreStatus_Running],
              A7Ok(0, CoreStatus_Running))

\* wait_for_core_halted: the timeout leaves room for n polls; a pending halt
\* takes effect after d polls
RECURSIVE Armv7a_wait_for_core_halted(_, _, _)
Armv7a_wait_for_core_halted(m, n, d) ==
    IF n = 0 THEN Step(m, A7Err("Timeout"))
    ELSE Let(IF m.halt_pending /\ d = 0 THEN A7EnterDebug(m, m.pending_moe) ELSE m,
             LAMBDA t :
             IF t.halted THEN Step(t, A7Ok(0, CoreStatus_Unknown))
             ELSE Armv7a_wait_for_core_halted(t, n - 1, Max(d - 1, 0)))

\* DBGDRCR written with HRQ: a core that runs will halt
HaltRequested(m) ==
    IF m.halted THEN m ELSE [m EXCEPT !.halt_pending = TRUE, !.pending_moe = 0]

\* breakpoint unit N-1 is an enabled address mismatch breakpoint
MismatchSet(m) == m.bcr.e /\ m.bcr.bt = BT_MISMATCH

\* DBGBVR and DBGBCR of breakpoint unit N-1 written
BreakpointWritten(m, value, control) ==
    RegWritten(RegWritten([m EXCEPT !.bvr = value, !.bcr = control], "DBGBVR", value),
               "DBGBCR", control)

\* DBGDRCR written with RRQ: a halted core leaves Debug state with the
\* registers it has now; with the mismatch breakpoint of step set it halts
\* again after one instruction
RestartRequested(m) ==
    LET m1 == [m EXCEPT !.log = Append(@, [ev |-> "restart", reg |-> 0, value |-> 0,
                                           regs |-> m.regs])]
    IN  IF ~ m.halted THEN m1
        ELSE [m1 EXCEPT !.halted = FALSE,
                        !.halt_pending = MismatchSet(m),
                        !.pending_moe = 1]

\* halt
Armv7a_halt(m, n, d) ==
    Let(HaltRequested(m), LAMBDA m1 :
    Try(Armv7a_wait_for_core_halted(m1, n, d), LAMBDA w :
    Try(Armv7a_status(reset_register_cache(w.m)), LAMBDA s :
    Armv7a_read_core_reg(s.m, PC))))

\* run; the core that halts right away has done so before status reads
\* DBGDSCR when again is true
Armv7a_run(m, again) ==
    Try(writeback_registers(m), LAMBDA w :
    Let(RestartRequested(w.m), LAMBDA m1 :
    Let(IF m1.halt_pending /\ again THEN A7EnterDebug(m1, m1.pending_moe) ELSE m1,
        LAMBDA m2 :
    Try(Armv7a_status([m2 EXCEPT !.current_state = CoreStatus_Running]), LAMBDA s :
    Step(s.m, A7Ok(0, CoreStatus_Unknown))))))

\* step: the value and the control register of the last breakpoint unit are
\* saved, the unit is set to an address mismatch on the current pc, the core
\* is resumed and waited for, and the unit is restored
Armv7a_step(m, again, n, d) ==
    LET saved_bp_value == m.bvr
        saved_bp_control == m.bcr
    IN  Try(Armv7a_read_core_reg(m, PC), LAMBDA current_pc :
        Let(BreakpointWritten(current_pc.m, current_pc.r.value, Dbgbcr(BT_MISMATCH, TRUE)),
            LAMBDA m1 :
        Try(Armv7a_run(m1, again), LAMBDA r :
        Try(Armv7a_wait_for_core_halted(r.m, n, d), LAMBDA w :
        Let(BreakpointWritten(w.m, saved_bp_value, saved_bp_control), LAMBDA m2 :
        Armv7a_read_core_reg(m2, PC))))))

\* reset: the system reset leaves the core running from the reset vector
Armv7a_reset(m) ==
    LET m1 == [m EXCEPT !.halted = FALSE, !.halt_pending = FALSE, !.regs[PC] = 0]
    IN  Step(reset_register_cache(m1), A7Ok(0, CoreStatus_Unknown))

\* Armv7a::new on a State that is not initialized
Armv7a_new(m) ==
    [m EXCEPT !.current_state =
                 IF m.halted THEN CoreStatus_Halted(Dbgdscr_halt_reason(m.halted, m.moe))
                 ELSE CoreStatus_Running,
              !.itr_enabled = FALSE,
              !.register_cache = EmptyCache]

-----------------------------------------------------------------------------
(* Specification SpecArmv7a: a debugger drives one ARMv7-A core             *)

\* most polls of DBGDSCR a timeout of wait_for_core_halted leaves room for
MaxWaits == 1

Armv7aTargets ==
    { [attached |-> TRUE, regs |-> g, halted |-> h, halt_pending |-> FALSE,
       cpsr |-> 16, pending_moe |-> 0, moe |-> IF h THEN 1 ELSE 0, dtrrx |-> 0, dtrtx |-> 0,
       bvr |-> 0, bcr |-> Dbgbcr_zero, writes |-> <<>>, log |-> <<>>,
       current_state |-> CoreStatus_Unknown, itr_enabled |-> FALSE,
       register_cache |-> EmptyCache] :
         g \in [CoreRegs -> RegValues], h \in BOOLEAN }

A7Op(name, r) == [name |-> name, result |-> r]
A7Begin(m) == [m EXCEPT !.log = <<>>, !.writes = <<>>]

InitArmv7a ==
    /\ pc = "armv7a"
    /\ \E t \in Armv7aTargets : a7 = Armv7a_new(t)
    /\ a7_op = A7Op("new", A7Ok(0, CoreStatus_Unknown))
    /\ IdleBatch
    /\ IdleParse
    /\ IdleEngine
    /\ IdleCortexM
    /\ IdleHost

\* an operation is called and s is what it gives; from a call that never
\* returns the debugger does not come back
A7Returns(name, returned) ==
    \E s \in {returned} :
       /\ a7' = s.m
       /\ a7_op' = A7Op(name, s.r)
       /\ pc' = CASE s.r.kind = "hang" -> "armv7a_polling"
                   [] s.r.kind = "panic" -> "armv7a_aborted"
                   [] OTHER -> pc
    /\ UNCHANGED <<batch_vars, parse_vars, engine_vars, cm_vars, host_vars>>

A7ReadCoreReg ==
    /\ pc = "armv7a"
    /\ \E reg \in CoreRegs \cup {REGISTER_CACHE_LEN} :
          A7Returns("read_core_reg", Armv7a_read_core_reg(A7Begin(a7), reg))

A7WriteCoreReg ==
    /\ pc = "armv7a"
    /\ \E reg \in CoreRegs \cup {REGISTER_CACHE_LEN}, value \in RegValues :
          A7Returns("write_core_reg",
                    Armv7a_write_core_reg(A7Begin(a7), reg, value))

A7Halt ==
    /\ pc = "armv7a"
    /\ \E n \in 0..MaxWaits, d \in 0..MaxWaits :
          A7Returns("halt", Armv7a_halt(A7Begin(a7), n, d))

A7Run ==
    /\ pc = "armv7a"
    /\ \E again \in BOOLEAN :
          A7Returns("run", Armv7a_run(A7Begin(a7), again))

A7Step ==
    /\ pc = "armv7a"
    /\ \E again \in BOOLEAN, n \in 1..MaxWaits, d \in 0..MaxWaits :
          A7Returns("step", Armv7a_step(A7Begin(a7), again, n, d))

A7Reset ==
    /\ pc = "armv7a"
    /\ A7Returns("reset", Armv7a_reset(A7Begin(a7)))

A7Status ==
    /\ pc = "armv7a"
    /\ A7Returns("status", Armv7a_status(A7Begin(a7)))

\* the target on its own: a requested halt or the breakpoint of a step takes
\* effect
A7TargetHalts ==
    /\ pc = "armv7a"
    /\ a7.halt_pending
    /\ a7' = A7EnterDebug(a7, a7.pending_moe)
    /\ a7_op' = A7Op("target", A7Ok(0, CoreStatus_Unknown))
    /\ UNCHANGED <<pc, batch_vars, parse_vars, engine_vars, cm_vars, host_vars>>

NextArmv7a ==
    \/ A7ReadCoreReg
    \/ A7WriteCoreReg
    \/ A7Halt
    \/ A7Run
    \/ A7Step
    \/ A7Reset
    \/ A7Status
    \/ A7TargetHalts

SpecArmv7a == InitArmv7a /\ [][NextArmv7a]_vars

-----------------------------------------------------------------------------
(* Specification SpecCpsr: the debugger reads and writes the CPSR as well   *)

A7ReadCpsr ==
    /\ pc = "armv7a"
    /\ A7Returns("read_core_reg", Armv7a_read_core_reg(A7Begin(a7), CPSR))

A7WriteCpsr ==
    /\ pc = "armv7a"
    /\ \E value \in RegValues :
          A7Returns("write_core_reg", Armv7a_write_core_reg(A7Begin(a7), CPSR, value))

NextCpsr ==
    \/ A7ReadCpsr
    \/ A7WriteCpsr
    \/ A7ReadCoreReg
    \/ A7Halt
    \/ A7Run
    \/ A7Status
    \/ A7TargetHalts

SpecCpsr == InitArmv7a /\ [][NextCpsr]_vars

-----------------------------------------------------------------------------
(* Memory access through the ARMv7-A core: impl MemoryInterface for Armv7a *)

\* set_r0
set_r0(m, value) == execute_instruction_with_input(m, build_mrc(R0), value)

\* read_word_32
Armv7a_read_word_32(m, address) ==
    Try(prepare_r0_for_clobber(m), LAMBDA p :
    Try(set_r0(p.m, address), LAMBDA s :
    execute_instruction_with_result(s.m, build_ldc(R0))))

\* write_word_32
Armv7a_write_word_32(m, address, data) ==
    Try(prepare_r0_for_clobber(m), LAMBDA p :
    Try(set_r0(p.m, address), LAMBDA s :
    execute_instruction_with_input(s.m, build_stc(R0), data)))

\* read_word_8
read_word_8(m, address) ==
    LET byte_offset == address % 4
        word_start == address - byte_offset
    IN  Try(Armv7a_read_word_32(m, word_start), LAMBDA data :
        Step(data.m, A7Ok(to_le_bytes(data.r.value)[byte_offset + 1], CoreStatus_Unknown)))

\* write_word_8
write_word_8(m, address, data) ==
    LET byte_offset == address % 4
        word_start == address - byte_offset
    IN  Try(Armv7a_read_word_32(m, word_start), LAMBDA current_word :
        Armv7a_write_word_32(current_word.m, word_start,
            from_le_bytes([to_le_bytes(current_word.r.value)
                              EXCEPT ![byte_offset + 1] = data])))

\* read_8: the loop from the i-th byte on; got is what was read so far
RECURSIVE read_8_from(_, _, _, _, _)
read_8_from(m, address, len, i, got) ==
    IF i >= len THEN Step(m, A7Ok(got, CoreStatus_Unknown))
    ELSE Try(read_word_8(m, address + i), LAMBDA b :
         read_8_from(b.m, address, len, i + 1, Append(got, b.r.value)))
read_8(m, address, len) == read_8_from(m, address, len, 0, <<>>)

\* write_8: the loop from the i-th byte on
RECURSIVE write_8_from(_, _, _, _)
write_8_from(m, address, data, i) ==
    IF i >= Len(data) THEN Step(m, A7Ok(0, CoreStatus_Unknown))
    ELSE Try(write_word_8(m, address + (i * 4), data[i + 1]), LAMBDA b :
         write_8_from(b.m, address, data, i + 1))
write_8(m, address, data) == write_8_from(m, address, data, 0)

-----------------------------------------------------------------------------
(* Specification SpecMemory: bytes are written to the memory of a halted    *)
(* ARMv7-A core and read back                                              *)

\* most bytes of one write_8 or read_8
MaxData == 2
\* the bytes written, the memory of the target and the addresses used
ByteValues == {17, 34}
Addresses == 0..(4 * MaxData + 3)
StartAddresses == 0..3
ByteSeqs == UNION { [1..n -> ByteValues] : n \in 1..MaxData }
MemoryFills == { [a \in Addresses |-> v] : v \in {0, 127} }

MemoryTargets ==
    { [attached |-> TRUE, regs |-> [r \in CoreRegs |-> 0], halted |-> TRUE,
       halt_pending |-> FALSE, cpsr |-> 16, pending_moe |-> 0, moe |-> 1,
       dtrrx |-> 0, dtrtx |-> 0, bvr |-> 0, bcr |-> Dbgbcr_zero, writes |-> <<>>,
       log |-> <<>>, current_state |-> CoreStatus_Unknown, itr_enabled |-> FALSE,
       register_cache |-> EmptyCache, mem |-> f] : f \in MemoryFills }

MemOp(name, address, data, r) == [name |-> name, address |-> address, data |-> data, result |-> r]

InitMemory ==
    /\ pc = "write_8"
    /\ \E t \in MemoryTargets : a7 = Armv7a_new(t)
    /\ a7_op = MemOp("new", 0, <<>>, A7Ok(0, CoreStatus_Unknown))
    /\ IdleBatch
    /\ IdleParse
    /\ IdleEngine
    /\ IdleCortexM
    /\ IdleHost

Write8 ==
    /\ pc = "write_8"
    /\ \E address \in StartAddresses, data \in ByteSeqs :
          \E s \in {write_8(A7Begin(a7), address, data)} :
             /\ a7' = s.m
             /\ a7_op' = MemOp("write_8", address, data, s.r)
    /\ pc' = "read_8"
    /\ UNCHANGED <<batch_vars, parse_vars, engine_vars, cm_vars, host_vars>>

Read8 ==
    /\ pc = "read_8"
    /\ \E address \in StartAddresses, len \in 1..MaxData :
          \E s \in {read_8(A7Begin(a7), address, len)} :
             /\ a7' = s.m
             /\ a7_op' = MemOp("read_8", address, a7_op.data, s.r)
    /\ pc' = "done"
    /\ UNCHANGED <<batch_vars, parse_vars, engine_vars, cm_vars, host_vars>>

NextMemory ==
    \/ Write8
    \/ Read8

SpecMemory == InitMemory /\ [][NextMemory]_vars

-----------------------------------------------------------------------------
(* The flash engine: flashing/flasher.rs                                   *)
(*                                                                         *)
(* The Flasher calls the routines of the flash algorithm loaded on the     *)
(* target.  A routine is started by writing its registers and resuming the *)
(* core; it is complete when the core has halted again, with the result in *)
(* r0.  The result code of each routine is the target's choice.            *)

\* largest result code a routine returns
MaxCode == 1
\* largest number of pages in a flash layout
MaxPages == 3

Codes == 0..MaxCode
\* the core has not halted within the timeout
TimedOut == MaxCode + 1
Outcomes == Codes \cup {TimedOut}

\* Operation::operation
Operation_Erase == 1
Operation_Program == 2
Operation_Verify == 3

\* flash_properties.address_range.start, page_size and the sector size
FlashBase == 134217728
page_size == 256
sector_size == 512
\* the page buffers of the assembled algorithm in RAM; begin_data is the first
PageBuffers == <<536875008, 536875264>>
begin_data == PageBuffers[1]

\* the registers of a routine call
Registers(name, r0, r1, r2) == [name |-> name, r0 |-> r0, r1 |-> r1, r2 |-> r2]
NoRoutine == Registers("none", None, None, None)

\* FlashError and the Result of a Flasher function
RoutineCallFailed(name, error_code) ==
    [err |-> "RoutineCallFailed", name |-> name, error_code |-> error_code]
Timeout == [err |-> "Timeout"]
NoError == [err |-> "none"]
FlashError(err, address, source) == [err |-> err, address |-> address, source |-> source]
FlashOk(value) == [kind |-> "ok", value |-> value, error |-> NoError]
FlashErr(error) == [kind |-> "err", value |-> 0, error |-> error]

\* what the Flasher did to the target: a routine call, a write to RAM, the
\* halt that ends a routine; during is the routine in flight at that time
Event(ev, what, code, during) == [ev |-> ev, what |-> what, code |-> code, during |-> during]

\* the routine in flight halts with its result code in r0
Completed(f, code) ==
    [f EXCEPT !.routine = NoRoutine,
              !.r0 = code,
              !.calls = Append(@, Event("done", f.routine, code, NoRoutine))]

\* call_function: the registers are written and the core is resumed
call_function(f, registers) ==
    [f EXCEPT !.routine = registers,
              !.calls = Append(@, Event("call", registers, 0, f.routine))]

\* wait_for_completion: wait_for_core_halted, then the result register is read
wait_for_completion(f, outcome) ==
    IF f.routine = NoRoutine THEN Step(f, FlashOk(f.r0))
    ELSE IF outcome = TimedOut THEN Step(f, FlashErr(Timeout))
    ELSE Step(Completed(f, outcome), FlashOk(outcome))

\* call_function_and_wait
call_function_and_wait(f, registers, outcome) ==
    wait_for_completion(call_function(f, registers), outcome)

\* a write of the host to the RAM of the target
RamWritten(f, address, len) ==
    [f EXCEPT !.calls = Append(@, Event("write", Registers("ram", address, len, None),
                                        0, f.routine))]

\* ActiveFlasher::init for the operation O
ActiveFlasher_init(f, O, outcome) ==
    IF ~ f.pc_init THEN Step(f, FlashOk(0))
    ELSE LET w == call_function_and_wait(f, Registers("init", FlashBase, 0, O), outcome)
         IN  IF w.r.kind = "err"
             THEN Step(w.m, FlashErr(FlashError("Init", 0, w.r.error)))
             ELSE IF w.r.value # 0
             THEN Step(w.m, FlashErr(RoutineCallFailed("init", w.r.value)))
             ELSE Step(w.m, FlashOk(0))

\* ActiveFlasher::uninit
ActiveFlasher_uninit_Never(f, O, outcome) == Step(f, FlashOk(0))
ActiveFlasher_uninit(f, O, outcome) ==
    IF ~ f.pc_uninit THEN Step(f, FlashOk(0))
    ELSE LET w == call_function_and_wait(f, Registers("uninit", O, None, None), outcome)
         IN  IF w.r.kind = "err"
             THEN Step(w.m, FlashErr(FlashError("Uninit", 0, w.r.error)))
             ELSE IF w.r.value # 0
             THEN Step(w.m, FlashErr(RoutineCallFailed("uninit", w.r.value)))
             ELSE Step(w.m, FlashOk(0))

\* ActiveFlasher<Erase>::erase_sector
erase_sector(f, address, outcome) ==
    LET w == call_function_and_wait(f, Registers("erase_sector", address, None, None),
                                    outcome)
    IN  IF w.r.kind = "err"
        THEN Step(w.m, FlashErr(FlashError("EraseFailed", address, w.r.error)))
        ELSE IF w.r.value # 0
        THEN Step(w.m, FlashErr(RoutineCallFailed("erase_sector", w.r.value)))
        ELSE Step(w.m, FlashOk(0))

\* ActiveFlasher<Program>::program_page
program_page(f, address, len, outcome) ==
    LET w == call_function_and_wait(RamWritten(f, begin_data, len),
                                    Registers("program_page", address, len, begin_data),
                                    outcome)
    IN  IF w.r.kind = "err"
        THEN Step(w.m, FlashErr(FlashError("PageWrite", address, w.r.error)))
        ELSE IF w.r.value # 0
        THEN Step(w.m, FlashErr(FlashError("PageWrite", address,
                                           RoutineCallFailed("program_page", w.r.value))))
        ELSE Step(w.m, FlashOk(0))

\* the assertion of start_program_page_with_buffer and load_page_buffer
BufferExists(f, buffer_number) == buffer_number < f.page_buffers

\* ActiveFlasher<Program>::start_program_page_with_buffer
start_program_page_with_buffer(f, address, buffer_number) ==
    IF ~ BufferExists(f, buffer_number) THEN [f EXCEPT !.panicked = TRUE]
    ELSE call_function(f, Registers("program_page", address, page_size,
                                    PageBuffers[buffer_number + 1]))

\* ActiveFlasher<Program>::load_page_buffer
load_page_buffer(f, len, buffer_number) ==
    IF ~ BufferExists(f, buffer_number) THEN [f EXCEPT !.panicked = TRUE]
    ELSE RamWritten(f, PageBuffers[buffer_number + 1], len)

\* Flasher::double_buffering_supported
double_buffering_supported_Always(f) == TRUE
double_buffering_supported(f) == f.page_buffers > 1

-----------------------------------------------------------------------------
(* Specification SpecFlasher: Flasher::program on one flash layout          *)

\* the flash layout: n pages from the start of the flash on, and the sectors
\* that hold them, both in ascending order
LayoutPages(n) == [k \in 1..n |-> FlashBase + page_size * (k - 1)]
LayoutSectors(n) ==
    [s \in 1..((n * page_size + sector_size - 1) \div sector_size) |->
        FlashBase + sector_size * (s - 1)]

Flashers ==
    { [name |-> "flasher", at |-> "program",
       page_buffers |-> b, enable_double_buffering |-> e, skip_erasing |-> s,
       pc_init |-> pi, pc_uninit |-> pu,
       pages |-> LayoutPages(n), sectors |-> LayoutSectors(n),
       calls |-> <<>>, progress |-> <<>>, routine |-> NoRoutine, r0 |-> c, panicked |-> FALSE,
       current_buf |-> 0, i |-> 1, last_page_address |-> 0,
       result |-> FlashOk(0)] :
         b \in 1..2, e \in BOOLEAN, s \in BOOLEAN, pi \in BOOLEAN, pu \in BOOLEAN,
         n \in 0..MaxPages, c \in Codes }

IdleFlasher == fl = NoOp
IdleFamily == cf = NoOp

InitFlasher ==
    /\ pc = "flasher"
    /\ fl \in Flashers
    /\ IdleFamily
    /\ IdleBatch
    /\ IdleParse
    /\ IdleEngine
    /\ IdleCortexM
    /\ IdleArmv7a

\* an event given to FlashProgress, and how many events of the target came
\* before it
Progressed(f, ev, address) ==
    [f EXCEPT !.progress = Append(@, [ev |-> ev, address |-> address, calls |-> Len(f.calls)])]

\* program returns r
FlashReturn(f, r) == [f EXCEPT !.at = "returned", !.result = r]
FlasherStep(f) ==
    /\ fl' = f
    /\ UNCHANGED <<pc, batch_vars, parse_vars, engine_vars, cm_vars, a7_vars, cf>>

\* the path program takes for the pages
ProgramPath(f) ==
    IF double_buffering_supported(f) /\ f.enable_double_buffering
    THEN "program_double_buffer" ELSE "program_simple"

\* program up to the erase: no fill is to be restored
Program ==
    /\ pc = "flasher"
    /\ fl.at = "program"
    /\ FlasherStep([fl EXCEPT !.at = IF ~ fl.skip_erasing THEN "sector_erase"
                                     ELSE ProgramPath(fl)])

\* sector_erase, run_erase: self.init(None)?
SectorErase_init ==
    /\ pc = "flasher"
    /\ fl.at = "sector_erase"
    /\ \E outcome \in Outcomes :
          LET s == ActiveFlasher_init(Progressed(fl, "started_erasing", 0),
                                      Operation_Erase, outcome)
          IN  FlasherStep(IF s.r.kind = "err"
                          THEN FlashReturn(Progressed(s.m, "failed_erasing", 0), s.r)
                          ELSE [s.m EXCEPT !.at = "erase_sector", !.i = 1])

\* sector_erase: one turn of the loop over the sectors
SectorErase_erase_sector ==
    /\ pc = "flasher"
    /\ fl.at = "erase_sector"
    /\ fl.i <= Len(fl.sectors)
    /\ \E outcome \in Outcomes :
          LET s == erase_sector(fl, fl.sectors[fl.i], outcome)
          IN  FlasherStep(IF s.r.kind = "err"
                          THEN FlashReturn(Progressed(s.m, "failed_erasing", 0),
                                           FlashErr(FlashError("EraseFailed",
                                                    fl.sectors[fl.i], s.r.error)))
                          ELSE [Progressed(s.m, "sector_erased", fl.sectors[fl.i])
                                  EXCEPT !.i = @ + 1])

\* sector_erase, run_erase: active.uninit()? after the loop
SectorErase_uninit ==
    /\ pc = "flasher"
    /\ fl.at = "erase_sector"
    /\ fl.i > Len(fl.sectors)
    /\ \E outcome \in Outcomes :
          LET s == ActiveFlasher_uninit(fl, Operation_Erase, outcome)
          IN  FlasherStep(IF s.r.kind = "err"
                          THEN FlashReturn(Progressed(s.m, "failed_erasing", 0), s.r)
                          ELSE [Progressed(s.m, "finished_erasing", 0)
                                  EXCEPT !.at = ProgramPath(fl)])

\* program_simple, run_program: self.init(None)?
ProgramSimple_init ==
    /\ pc = "flasher"
    /\ fl.at = "program_simple"
    /\ \E outcome \in Outcomes :
          LET s == ActiveFlasher_init(Progressed(fl, "started_programming", 0),
                                      Operation_Program, outcome)
          IN  FlasherStep(IF s.r.kind = "err"
                          THEN FlashReturn(Progressed(s.m, "failed_programming", 0), s.r)
                          ELSE [s.m EXCEPT !.at = "program_page", !.i = 1])

\* program_simple: one turn of the loop over the pages
ProgramSimple_program_page ==
    /\ pc = "flasher"
    /\ fl.at = "program_page"
    /\ fl.i <= Len(fl.pages)
    /\ \E outcome \in Outcomes :
          LET s == program_page(fl, fl.pages[fl.i], page_size, outcome)
          IN  FlasherStep(IF s.r.kind = "err"
                          THEN FlashReturn(Progressed(s.m, "failed_programming", 0),
                                           FlashErr(FlashError("PageWrite",
                                                    fl.pages[fl.i], s.r.error)))
                          ELSE [Progressed(s.m, "page_programmed", fl.pages[fl.i])
                                  EXCEPT !.i = @ + 1])

\* program_simple, run_program: active.uninit()? after the loop
ProgramSimple_uninit ==
    /\ pc = "flasher"
    /\ fl.at = "program_page"
    /\ fl.i > Len(fl.pages)
    /\ \E outcome \in Outcomes :
          LET s == ActiveFlasher_uninit(fl, Operation_Program, outcome)
          IN  FlasherStep(FlashReturn(Progressed(s.m, IF s.r.kind = "err"
                                                      THEN "failed_programming"
                                                      ELSE "finished_programming", 0),
                                      s.r))

\* program_double_buffer, run_program: self.init(None)?
DoubleBuffer_init ==
    /\ pc = "flasher"
    /\ fl.at = "program_double_buffer"
    /\ \E outcome \in Outcomes :
          LET s == ActiveFlasher_init(Progressed(fl, "started_programming", 0),
                                      Operation_Program, outcome)
          IN  FlasherStep(IF s.r.kind = "err"
                          THEN FlashReturn(Progressed(s.m, "failed_programming", 0), s.r)
                          ELSE [s.m EXCEPT !.at = "load_page_buffer", !.i = 1,
                                           !.current_buf = 0,
                                           !.last_page_address = 0])

\* program_double_buffer: the next page is loaded into the current buffer
DoubleBuffer_load_page_buffer ==
    /\ pc = "flasher"
    /\ fl.at = "load_page_buffer"
    /\ fl.i <= Len(fl.pages)
    /\ LET f == load_page_buffer(fl, page_size, fl.current_buf)
       IN  FlasherStep([f EXCEPT !.at = IF f.panicked THEN "panicked"
                                        ELSE "wait_for_completion"])

\* program_double_buffer: the routine started before is waited for, and
\* page_programmed is reported for the page of this turn of the loop
DoubleBuffer_wait_for_completion ==
    /\ pc = "flasher"
    /\ fl.at = "wait_for_completion"
    /\ \E outcome \in Outcomes :
          LET w == wait_for_completion(fl, outcome)
              p == Progressed(w.m, "page_programmed", fl.pages[fl.i])
          IN  FlasherStep(
                IF w.r.kind = "err"
                THEN FlashReturn(Progressed(w.m, "failed_programming", 0),
                                 FlashErr(FlashError("PageWrite",
                                          fl.last_page_address, w.r.error)))
                ELSE IF w.r.value # 0
                THEN FlashReturn(Progressed(p, "failed_programming", 0),
                                 FlashErr(RoutineCallFailed("program_page", w.r.value)))
                ELSE [p EXCEPT !.last_page_address = fl.pages[fl.i],
                               !.at = "start_program_page"])

\* program_double_buffer: the buffers are swapped
SwapBuffers_Same(current_buf) == current_buf
SwapBuffers(current_buf) == IF current_buf = 1 THEN 0 ELSE 1

\* program_double_buffer: the page is started and the buffers are swapped
DoubleBuffer_start_program_page ==
    /\ pc = "flasher"
    /\ fl.at = "start_program_page"
    /\ LET f == start_program_page_with_buffer(fl, fl.pages[fl.i], fl.current_buf)
       IN  FlasherStep([f EXCEPT !.at = IF f.panicked THEN "panicked"
                                        ELSE "load_page_buffer",
                                 !.current_buf = SwapBuffers(@),
                                 !.i = @ + 1])

\* program_double_buffer: the wait after the loop
DoubleBuffer_final_wait ==
    /\ pc = "flasher"
    /\ fl.at = "load_page_buffer"
    /\ fl.i > Len(fl.pages)
    /\ \E outcome \in Outcomes :
          LET w == wait_for_completion(fl, outcome)
          IN  FlasherStep(
                IF w.r.kind = "err"
                THEN FlashReturn(Progressed(w.m, "failed_programming", 0),
                                 FlashErr(FlashError("PageWrite",
                                          fl.last_page_address, w.r.error)))
                ELSE IF w.r.value # 0
                THEN FlashReturn(Progressed(w.m, "failed_programming", 0),
                                 FlashErr(RoutineCallFailed("wait_for_completion",
                                                            w.r.value)))
                ELSE [w.m EXCEPT !.at = "uninit"])

\* program_double_buffer, run_program: active.uninit()?
DoubleBuffer_uninit ==
    /\ pc = "flasher"
    /\ fl.at = "uninit"
    /\ \E outcome \in Outcomes :
          LET s == ActiveFlasher_uninit(fl, Operation_Program, outcome)
          IN  FlasherStep(FlashReturn(Progressed(s.m, IF s.r.kind = "err"
                                                      THEN "failed_programming"
                                                      ELSE "finished_programming", 0),
                                      s.r))

\* the target on its own: the routine in flight halts while the host loads
\* the next page or before it waits
RoutineHalts ==
    /\ pc = "flasher"
    /\ fl.at \in {"load_page_buffer", "wait_for_completion"}
    /\ fl.routine # NoRoutine
    /\ \E code \in Codes : FlasherStep(Completed(fl, code))

NextFlasher ==
    \/ Program
    \/ SectorErase_init
    \/ SectorErase_erase_sector
    \/ SectorErase_uninit
    \/ ProgramSimple_init
    \/ ProgramSimple_program_page
    \/ ProgramSimple_uninit
    \/ DoubleBuffer_init
    \/ DoubleBuffer_load_page_buffer
    \/ DoubleBuffer_wait_for_completion
    \/ DoubleBuffer_start_program_page
    \/ DoubleBuffer_final_wait
    \/ DoubleBuffer_uninit
    \/ RoutineHalts

SpecFlasher == InitFlasher /\ [][NextFlasher]_vars

-----------------------------------------------------------------------------
(* The target description: probe-rs-target/src/chip_family.rs              *)

\* largest number of variants of a chip family
MaxVariants == 2

\* CoreType (three of its six values) and CoreType::architecture
CoreTypes == {"Armv6m", "Armv7a", "Riscv"}
architecture_Distinct(core_type) == core_type
architecture(core_type) == IF core_type = "Riscv" THEN "Riscv" ELSE "Arm"

\* the names of flash algorithms: a family has "x" or none, "y" is a typo
AlgorithmNames == {"x", "y"}
FamilyAlgorithms == {<<>>, <<"x">>}
AlgorithmLists == {<<>>, <<"x">>, <<"y">>, <<"x", "y">>}
CoreLists == {<<>>} \cup [1..1 -> CoreTypes] \cup [1..2 -> CoreTypes]

\* Chip: a variant is named by its place in the family
Chips(k) ==
    { [name |-> k, flash_algorithms |-> a, cores |-> c] :
         a \in AlgorithmLists, c \in CoreLists }
ChipFamilies ==
    { [flash_algorithms |-> a, variants |-> v] :
         a \in FamilyAlgorithms,
         v \in UNION { { w \in [1..n -> UNION { Chips(k) : k \in 1..n }] :
                           \A k \in 1..n : w[k].name = k } : n \in 0..MaxVariants } }

ValidateOk == [kind |-> "ok", err |-> "none", variant |-> 0]
ValidateErr(err, variant) == [kind |-> "err", err |-> err, variant |-> variant]

\* self.flash_algorithms.iter().any(|algorithm| &algorithm.name == algorithm_name)
AlgorithmExists(family, algorithm_name) ==
    \E i \in 1..Len(family.flash_algorithms) :
       family.flash_algorithms[i] = algorithm_name

\* ChipFamily::validate: the loop over the variants from the k-th on
RECURSIVE validate_from(_, _)
validate_from(family, k) ==
    IF k > Len(family.variants) THEN ValidateOk
    ELSE LET variant == family.variants[k]
         IN  IF \E i \in 1..Len(variant.flash_algorithms) :
                   ~ AlgorithmExists(family, variant.flash_algorithms[i])
             THEN ValidateErr("unknown flash algorithm", variant.name)
             ELSE IF Len(variant.cores) = 0
             THEN ValidateErr("does not contain any cores", variant.name)
             ELSE IF \E i \in 1..Len(variant.cores) :
                        architecture(variant.cores[i]) # architecture(variant.cores[1])
             THEN ValidateErr("contains mixed core architectures", variant.name)
             ELSE validate_from(family, k + 1)
validate(family) == validate_from(family, 1)

-----------------------------------------------------------------------------
(* Specification SpecValidate: validate is called on a chip family          *)

NotValidated == [kind |-> "none", err |-> "none", variant |-> 0]

InitValidate ==
    /\ pc = "validate"
    /\ \E family \in ChipFamilies :
          cf = [name |-> "family", family |-> family, result |-> NotValidated]
    /\ IdleFlasher
    /\ IdleBatch
    /\ IdleParse
    /\ IdleEngine
    /\ IdleCortexM
    /\ IdleArmv7a

Validate ==
    /\ pc = "validate"
    /\ cf.result = NotValidated
    /\ cf' = [cf EXCEPT !.result = validate(cf.family)]
    /\ UNCHANGED <<pc, batch_vars, parse_vars, engine_vars, cm_vars, a7_vars, fl>>

NextValidate == Validate

SpecValidate == InitValidate /\ [][NextValidate]_vars

-----------------------------------------------------------------------------
(* Claims about the Cortex-M core control, checked under SpecCortexM       *)

\* the accesses of the latest operation that write the given register
WritesTo(reg) == { i \in 1..Len(cm.log) : cm.log[i].acc = "write" /\ cm.log[i].reg = reg }
ReadsOf(reg) == { i \in 1..Len(cm.log) : cm.log[i].acc = "read" /\ cm.log[i].reg = reg }
Returned_Ok(name) == cm_op.name = name /\ cm_op.result.kind = "ok"
Returned_Err(name, err) == cm_op.name = name /\ cm_op.result.err = err

\* C11: every value written to DHCSR, by halt, run, step and the debug core
\* start, carries the debug key 0xA05F in its upper 16 bits.
C11_DhcsrKey ==
    \A i \in WritesTo("DHCSR") : cm.log[i].value.hi = 41055

\* run has returned Ok: it wrote DHCSR twice, for the step and for the resume
C11_Witness ==
    /\ Returned_Ok("run")
    /\ Cardinality(WritesTo("DHCSR")) = 2

\* the latest operation read DHCSR at i and saw S_HALT
SawHalt(i) == i \in ReadsOf("DHCSR") /\ Bit(cm.log[i].value.hi, 2)
CoreRegReads == { i \in 1..Len(cm.log) : cm.log[i].acc = "read_core_reg" }
\* this step is a call of the named operation
Calls_Op(name) == cm_op'.name = name /\ <<cm, cm_op>>' # <<cm, cm_op>>

\* halt has returned: what it wrote, polled and read
C15_Returned ==
    cm_op.name = "halt" =>
       /\ Len(cm.log) >= 1
       /\ cm.log[1] = [acc |-> "write", reg |-> "DHCSR", idx |-> 0,
                       value |-> [hi |-> 41055, lo |-> 2 + 1]]
       /\ WritesTo("DHCSR") = {1}
       /\ cm_op.result.kind = "ok" =>
             \E i \in 2..Len(cm.log) :
                /\ SawHalt(i)
                /\ \A j \in 2..(i - 1) : j \in ReadsOf("DHCSR") /\ ~ SawHalt(j)
                /\ cm.current_state.kind = "Halted"
                /\ cm.log[Len(cm.log)].acc = "read_core_reg"
                /\ cm.log[Len(cm.log)].reg = "PC"
                /\ cm_op.result.value = cm.log[Len(cm.log)].value.lo
                /\ cm_op.result.value = cm.pc_reg
       /\ cm_op.result.kind # "ok" =>
             /\ cm_op.result.err = "Timeout"
             /\ \A j \in 2..Len(cm.log) : j \in ReadsOf("DHCSR") /\ ~ SawHalt(j)
             /\ CoreRegReads = {}

\* halt called on a halted core with time for one poll: the first poll ends the wait
C15_AlreadyHalted ==
    (Calls_Op("halt") /\ 2 \in cm.flags /\ cm_op'.arg >= 1) =>
       /\ cm_op'.result.kind = "ok"
       /\ Bit(cm'.log[2].value.hi, 2)
       /\ cm'.log[3].reg = "DHCSR"
       /\ cm'.log[Len(cm'.log)].acc = "read_core_reg"

\* C15: halt(timeout) writes DHCSR with C_HALT = 1 and C_DEBUGEN = 1, then
\* polls DHCSR. It returns Ok only after a read that shows S_HALT = 1 (the
\* first poll when the core is halted already); then the cached status is
\* Halted and the returned pc is the value read_core_reg(PC) gave. If no poll
\* sees S_HALT it returns Timeout and reads no core register.
C15_Halt == [] C15_Returned /\ [][C15_AlreadyHalted]_vars

\* halt has returned Ok after a poll that saw the core running and one that
\* saw it halted
C15_Witness ==
    /\ Returned_Ok("halt")
    /\ 2 \in ReadsOf("DHCSR") /\ ~ SawHalt(2)
    /\ SawHalt(3)

\* the accesses of a log that write BP_CTRL with ENABLE = en
BpCtrlWrites(log, en) ==
    { i \in 1..Len(log) : /\ log[i].acc = "write" /\ log[i].reg = "BP_CTRL"
                          /\ Bit(log[i].value.lo, 1) = en }
DhcsrWrites(log) == { i \in 1..Len(log) : log[i].acc = "write" /\ log[i].reg = "DHCSR" }

\* step disabled the breakpoints before its write of DHCSR
C16_Disabled ==
    \E i \in BpCtrlWrites(cm'.log, FALSE) : \A j \in DhcsrWrites(cm'.log) : i < j

C16_Step ==
    Calls_Op("step") =>
       /\ C16_Disabled <=> cm.current_state = [kind |-> "Halted", reason |-> "Breakpoint"]
       /\ C16_Disabled => cm'.bp_enable /\ cm'.hw_breakpoints_enabled
       /\ ~ C16_Disabled =>
             /\ BpCtrlWrites(cm'.log, TRUE) \cup BpCtrlWrites(cm'.log, FALSE) = {}
             /\ cm'.bp_enable = cm.bp_enable
             /\ cm'.hw_breakpoints_enabled = cm.hw_breakpoints_enabled

\* C16: step() disables the breakpoints globally before its step write exactly
\* when the cached status is Halted(Breakpoint); whenever it disabled them they
\* are enabled again when step() returns, on every return path, a timeout of
\* the wait for the halt included; otherwise the global enable is unchanged.
C16_StepBreakpoints == [][C16_Step]_vars

\* step called with the cached status Halted(Breakpoint) has returned Timeout
C16_TimedOut ==
    /\ Returned_Err("step", "Timeout")
    /\ BpCtrlWrites(cm.log, FALSE) # {}
    /\ ~ cm.bp_enable /\ ~ cm.hw_breakpoints_enabled

\* the writes of DHCSR of the latest operation that step (C_STEP set) and
\* that resume (C_DEBUGEN alone)
StepWrites == { i \in WritesTo("DHCSR") : Bit(cm.log[i].value.lo, 4) }
ResumeWrites == { i \in WritesTo("DHCSR") : cm.log[i].value = [hi |-> 41055, lo |-> 1] }

\* run has returned
C17_Returned ==
    cm_op.name = "run" =>
       /\ Cardinality(StepWrites) = 1
       /\ \A s \in StepWrites : \A i \in 1..Len(cm.log) : SawHalt(i) => s < i
       /\ cm_op.result.kind = "ok" =>
             /\ Cardinality(ResumeWrites) = 1
             /\ \A r \in ResumeWrites :
                   /\ \E h \in 1..(r - 1) : SawHalt(h)
                   /\ r + 1 = Len(cm.log)
                   /\ cm.log[r + 1].acc = "flush"
             /\ WritesTo("DHCSR") = StepWrites \cup ResumeWrites
             /\ cm.current_state = [kind |-> "Running", reason |-> "none"]
       /\ cm_op.result.kind # "ok" =>
             /\ ResumeWrites = {}
             /\ WritesTo("DHCSR") = StepWrites

\* a run that failed left the cached status alone; a status right after a
\* run that returned Ok gives Running
C17_Around ==
    /\ (Calls_Op("run") /\ cm_op'.result.kind # "ok") =>
           cm'.current_state = cm.current_state
    /\ (Returned_Ok("run") /\ Calls_Op("status")) =>
           /\ cm_op'.result.status = [kind |-> "Running", reason |-> "none"]
           /\ cm'.current_state = [kind |-> "Running", reason |-> "none"]

\* C17: run() first performs one step() and writes DHCSR with C_HALT = 0 and
\* C_DEBUGEN = 1, followed by a flush, only after the halt of that step was
\* observed; when run() returns Ok the cached status is Running and the next
\* status() gives Running; when the step fails no resume write is issued and
\* the cached status is not changed.
C17_Run == [] C17_Returned /\ [][C17_Around]_vars

\* run has returned Ok: the step halted the core again, the resume write and
\* its flush came last, the core runs and the cached status is Running
C17_Witness ==
    /\ Returned_Ok("run")
    /\ ResumeWrites = {Len(cm.log) - 1}
    /\ \E h \in 1..Len(cm.log) : SawHalt(h)
    /\ cm.flags = {}
    /\ cm.current_state = [kind |-> "Running", reason |-> "none"]

-----------------------------------------------------------------------------
(* Claim about status(), checked under SpecStatus                          *)

C18_Is(s) == cm_op'.result.status = s /\ cm'.current_state = s

C18_Decode ==
    Calls_Op("status") =>
       /\ cm_op'.result.kind = "ok"
       /\ CASE 8 \in cm.flags -> C18_Is([kind |-> "LockedUp", reason |-> "none"])
            [] 8 \notin cm.flags /\ 4 \in cm.flags ->
                 C18_Is([kind |-> "Sleeping", reason |-> "none"])
            [] cm.flags = {2} ->
                 /\ cm'.dfsr = 0
                 /\ IF cm.dfsr = 0 /\ cm.current_state.kind = "Halted"
                    THEN C18_Is(cm.current_state)
                    ELSE C18_Is([kind |-> "Halted", reason |-> halt_reason(cm.dfsr)])
            [] cm.flags = {} -> C18_Is([kind |-> "Running", reason |-> "none"])

\* the second of two status() calls on a core that stays halted
C18_Twice ==
    (/\ Returned_Ok("status") /\ cm_op.result.status.kind = "Halted"
     /\ Calls_Op("status") /\ cm.flags = {2}) =>
       cm_op'.result.status = cm_op.result.status

\* C18: status() gives LockedUp when S_LOCKUP is set; else Sleeping when
\* S_SLEEP is set; else, when S_HALT is set, Halted with the reason decoded
\* from DFSR, and DFSR is cleared; else Running. When DFSR reads zero and the
\* cached status is Halted already, the cached reason is returned and kept:
\* two status() calls in a row on a core that stays halted return the same
\* Halted(reason).
C18_Status == [][C18_Decode /\ C18_Twice]_vars

\* status has returned LockedUp for a DHCSR that shows S_LOCKUP, S_SLEEP and
\* S_HALT at once
C18_Witness ==
    /\ Returned_Ok("status")
    /\ cm.flags = {2, 4, 8}
    /\ cm_op.result.status = [kind |-> "LockedUp", reason |-> "none"]

-----------------------------------------------------------------------------
(* Claims about hardware breakpoints, checked under SpecBreakpoints        *)

\* the comparators the operation of this step wrote, as slot numbers from 1
CompWrites(log) == { log[i].idx + 1 : i \in { j \in 1..Len(log) :
                        log[j].acc = "write" /\ log[j].reg = "BP_COMP" } }
\* the slots that hold the address, the empty slots, the lowest of a set
Holding(list, address) == { i \in 1..Len(list) : list[i] = address }
Lowest(slots) == CHOOSE i \in slots : \A j \in slots : i <= j
OnlyWritten(slot) ==
    /\ CompWrites(cm'.log) = {slot}
    /\ \A i \in 1..Len(cm.comps) : i # slot => cm'.comps[i] = cm.comps[i]
GlobalEnableKept ==
    /\ cm'.bp_enable = cm.bp_enable
    /\ cm'.hw_breakpoints_enabled = cm.hw_breakpoints_enabled
    /\ BpCtrlWrites(cm'.log, TRUE) \cup BpCtrlWrites(cm'.log, FALSE) = {}

\* Core::set_hw_breakpoint of an address below 0x2000_0000, called when
\* hw_breakpoints() can be read
C12_Set ==
    (/\ Calls_Op("set_hw_breakpoint")
     /\ cm_op'.arg < 536870912
     /\ cm_op'.before.kind = "ok") =>
       LET list == cm_op'.before.list
           address == cm_op'.arg
       IN  IF Holding(list, address) # {}
           THEN cm_op'.result.kind = "ok" /\ OnlyWritten(Lowest(Holding(list, address)))
           ELSE IF Holding(list, -1) # {}
           THEN cm_op'.result.kind = "ok" /\ OnlyWritten(Lowest(Holding(list, -1)))
           ELSE /\ cm_op'.result.kind = "err"
                /\ CompWrites(cm'.log) = {}
                /\ cm'.comps = cm.comps
                /\ GlobalEnableKept

\* C12: Core::set_hw_breakpoint(address) rewrites the slot that holds the
\* address already and occupies no other slot; else it takes the empty slot of
\* the lowest index; if no slot is empty it fails, writes no comparator and
\* does not change whether breakpoints are enabled globally.
C12_SetHwBreakpoint == [][C12_Set]_vars

\* set_hw_breakpoint has failed for want of an empty slot after it enabled
\* the breakpoints
C12_EnabledThenFailed ==
    /\ cm_op.name = "set_hw_breakpoint"
    /\ cm_op.result.err = "Other(No available hardware breakpoints)"
    /\ BpCtrlWrites(cm.log, TRUE) # {}
    /\ CompWrites(cm.log) = {}

\* clear_hw_breakpoint(A) was called right after a set_hw_breakpoint(A) that
\* returned Ok
C13_AfterSet == cm_op.name = "clear_hw_breakpoint" /\ cm_op.before.kind = "ok"

\* C13: for every address A that set_hw_breakpoint accepts and whatever the
\* slots held before, set_hw_breakpoint(A) followed by clear_hw_breakpoint(A)
\* succeeds and leaves hw_breakpoints() equal to its value before the set.
C13_SetClear ==
    C13_AfterSet =>
       /\ cm_op.result.kind = "ok"
       /\ hw_breakpoints(cm).r = cm_op.before

\* the clear that follows an accepted set of the odd address 3 has failed
C13_ClearFailed ==
    /\ C13_AfterSet
    /\ cm_op.arg = 3
    /\ cm_op.result.err = "Other(No breakpoint found at address)"

\* the value Armv6m::set_hw_breakpoint has to write for an address: ENABLE in
\* bit 0, bits 28:2 of the address in place, MATCH in bits 31:30
C14_Value(a) ==
    [hi |-> (IF a % 4 < 2 THEN 1 ELSE 2) * 16384 + (a \div 65536),
     lo |-> (a % 65536) - (a % 4) + 1]

C14_Set ==
    Calls_Op("set_comparator") =>
       IF cm_op'.arg >= 536870912
       THEN /\ cm_op'.result.err = "ArchitectureSpecific"
            /\ CompWrites(cm'.log) = {}
            /\ cm'.comps = cm.comps
       ELSE /\ cm_op'.result.kind = "ok"
            /\ OnlyWritten(cm_op'.index + 1)
            /\ cm'.comps[cm_op'.index + 1] = C14_Value(cm_op'.arg)
            /\ Len(cm'.log) = 1
            /\ cm'.log[1].value = C14_Value(cm_op'.arg)

\* C14: Armv6m::set_hw_breakpoint(slot, a) fails with ArchitectureSpecific and
\* writes no comparator when a >= 0x2000_0000; for a < 0x2000_0000 it writes
\* comparator slot with ENABLE = 1, COMP = a[28:2] and MATCH = 01 when
\* (a & 3) < 2, else 10.
C14_SetComparator == [][C14_Set]_vars

\* 0x1FFF_FFFE was set in the second comparator: MATCH = 10, COMP all ones
C14_Witness ==
    /\ cm_op.name = "set_comparator" /\ cm_op.arg = 536870910 /\ cm_op.index = 1
    /\ cm_op.result.kind = "ok"
    /\ cm.comps[2] = [hi |-> 2 * 16384 + 8191, lo |-> 65533]

-----------------------------------------------------------------------------
(* Claims about the ARMv7-A register cache, checked under SpecArmv7a       *)

A7Returned_Ok(name) == a7_op.name = name /\ a7_op.result.kind = "ok"
Dirty(cache) == { r \in DOMAIN cache : cache[r].some /\ cache[r].writeback }
Cached(cache) == { r \in DOMAIN cache : cache[r].some }

\* C19: in every reachable state where status() has just returned Running the
\* register cache is empty, whatever sequence of read_core_reg,
\* write_core_reg, halt, run, step and reset came before.
C19_RunningCacheEmpty ==
    (A7Returned_Ok("status") /\ a7_op.result.status.kind = "Running") =>
       Cached(a7.register_cache) = {}

\* status has returned Running while the cache holds a value to write back
C19_DirtyWhileRunning ==
    /\ A7Returned_Ok("status")
    /\ a7_op.result.status.kind = "Running"
    /\ Dirty(a7.register_cache) # {}

\* the restart requests in a log, and this step as a call of run
Restarts(log) == { i \in 1..Len(log) : log[i].ev = "restart" }
A7Calls(name) == a7_op'.name = name /\ <<a7, a7_op>>' # <<a7, a7_op>>

C20_Run ==
    (A7Calls("run") /\ a7_op'.result.kind = "ok") =>
       /\ Cardinality(Restarts(a7'.log)) = 1
       /\ \A i \in Restarts(a7'.log) :
             \A r \in Dirty(a7.register_cache) :
                a7'.log[i].regs[r] = a7.register_cache[r].val
       /\ Cached(a7'.register_cache) = {}

\* C20: when run() writes the restart request, every dirty cached register
\* (any of r0..r14 and PC) holds its cached value on the target: the
\* write-back of one register never overwrites the value written back for
\* another; the cache is empty afterwards.
C20_Writeback == [][C20_Run]_vars

\* run has returned Ok after it wrote back r0 and then the PC through r0
C20_R0Clobbered ==
    /\ A7Returned_Ok("run")
    /\ \E i, j \in 1..Len(a7.log) :
          /\ i < j
          /\ a7.log[i].ev = "set" /\ a7.log[i].reg = 0
          /\ a7.log[j].ev = "set" /\ a7.log[j].reg = 0
          /\ a7.log[i].value # a7.log[j].value

\* r0 is overwritten on the target as a side effect of this operation
ClobbersR0(log) == \E i \in 1..Len(log) : log[i].ev = "set" /\ log[i].reg = R0

C21_Read ==
    (/\ A7Calls("read_core_reg")
     /\ a7_op'.result.kind = "ok"
     /\ ClobbersR0(a7'.log)
     /\ R0 \notin Dirty(a7.register_cache)) =>
       a7'.register_cache[R0] = Entry(a7.regs[R0], TRUE)

\* C21: whenever the driver overwrites r0 on the target as a side effect of
\* reading a register through r0, the value r0 had before is held in the
\* register cache marked dirty, for any preceding order of register reads
\* (a prior plain read of r0 included), so that the next run() restores it.
C21_R0Saved == [][C21_Read]_vars

\* a read through r0 has returned, r0 was overwritten on the target and its
\* cache entry is not marked for write-back
C21_R0Lost ==
    /\ A7Returned_Ok("read_core_reg")
    /\ ClobbersR0(a7.log)
    /\ R0 \notin Dirty(a7.register_cache)

\* the same with an empty r0 entry before the read: then the entry is dirty
C21_ReadUncached ==
    (/\ A7Calls("read_core_reg")
     /\ a7_op'.result.kind = "ok"
     /\ ClobbersR0(a7'.log)
     /\ ~ a7.register_cache[R0].some) =>
       a7'.register_cache[R0] = Entry(a7.regs[R0], TRUE)
C21_R0SavedUncached == [][C21_ReadUncached]_vars

-----------------------------------------------------------------------------
(* Claims about the flash engine, checked under SpecFlasher                *)

IsCall(e) == e.ev = "call"
IsDone(e) == e.ev = "done"
\* the routines called so far, in order, with their registers
RoutineCalls == LET s == SelectSeq(fl.calls, IsCall) IN [k \in 1..Len(s) |-> s[k].what]
FlashReturned == fl.at = "returned"
\* every routine called has halted, and with the result 0
AllCompleted == Len(SelectSeq(fl.calls, IsCall)) = Len(SelectSeq(fl.calls, IsDone))
AllReturnedZero ==
    /\ AllCompleted
    /\ \A k \in 1..Len(fl.calls) : fl.calls[k].ev = "done" => fl.calls[k].code = 0

\* one 256-byte page at 0x0800_0000, one page buffer, erase not skipped, the
\* algorithm has all its routines and each returns 0
C22_Scenario ==
    /\ FlashReturned
    /\ fl.pages = <<FlashBase>>
    /\ fl.page_buffers = 1
    /\ ~ fl.skip_erasing
    /\ fl.pc_init /\ fl.pc_uninit
    /\ AllReturnedZero

\* C22 (as the code has it): programming a single 256-byte page at
\* 0x0800_0000 with one page buffer, erase not skipped and every routine
\* returning 0, calls init(op=Erase), erase_sector(0x0800_0000), uninit,
\* init(op=Program), program_page(0x0800_0000, 256, begin_data), uninit, in
\* this order, and the overall result is Ok.
C22_EraseThenProgram ==
    C22_Scenario =>
       /\ RoutineCalls = << Registers("init", FlashBase, 0, Operation_Erase),
                            Registers("erase_sector", FlashBase, None, None),
                            Registers("uninit", Operation_Erase, None, None),
                            Registers("init", FlashBase, 0, Operation_Program),
                            Registers("program_page", FlashBase, page_size, begin_data),
                            Registers("uninit", Operation_Program, None, None) >>
       /\ fl.result = FlashOk(0)

\* the single page has been programmed and program has returned Ok
C22_Witness == C22_Scenario /\ fl.result.kind = "ok" /\ Len(RoutineCalls) > 0

\* C22 as stated: the routines are called in exactly the order
\* init(op=Program), erase_sector(0x0800_0000),
\* program_page(0x0800_0000, 256, begin_data), uninit, and the result is Ok.
C22_OneBracket ==
    C22_Scenario =>
       /\ RoutineCalls = << Registers("init", FlashBase, 0, Operation_Program),
                            Registers("erase_sector", FlashBase, None, None),
                            Registers("program_page", FlashBase, page_size, begin_data),
                            Registers("uninit", Operation_Program, None, None) >>
       /\ fl.result = FlashOk(0)

\* the calls of a routine, and those that halted with the result 0
NumCalls(name) ==
    Cardinality({ k \in 1..Len(fl.calls) :
                    fl.calls[k].ev = "call" /\ fl.calls[k].what.name = name })
NumZero(name) ==
    Cardinality({ k \in 1..Len(fl.calls) :
                    /\ fl.calls[k].ev = "done"
                    /\ fl.calls[k].what.name = name
                    /\ fl.calls[k].code = 0 })

\* C23: every successful init is followed by exactly one uninit on every
\* return path: when erase_sector or program_page returns a non-zero code
\* inside a run_erase / run_program bracket, uninit is still called before
\* the error is propagated to the caller.
C23_UninitOnError ==
    (FlashReturned /\ fl.pc_init /\ fl.pc_uninit /\ AllCompleted) =>
       NumZero("init") = NumCalls("uninit")

\* program_page has returned a non-zero code, program has returned the error
\* and the last routine called is program_page, not uninit
C23_NoUninit ==
    /\ FlashReturned
    /\ fl.pc_init /\ fl.pc_uninit /\ AllCompleted
    /\ fl.result.kind = "err"
    /\ fl.result.error.err = "PageWrite"
    /\ Len(RoutineCalls) > 0
    /\ RoutineCalls[Len(RoutineCalls)].name = "program_page"

\* on the return paths without an error of a routine the brackets are closed
C23_UninitOnOk ==
    (FlashReturned /\ fl.pc_init /\ fl.pc_uninit /\ AllReturnedZero) =>
       NumZero("init") = NumCalls("uninit")

\* the host wrote into RAM while a routine was in flight
WritesDuringRoutine ==
    { k \in 1..Len(fl.calls) :
        fl.calls[k].ev = "write" /\ fl.calls[k].during # NoRoutine }

\* no routine is started while another is in flight, and no write of the host
\* goes to the buffer the routine in flight reads
C24_OneInFlight ==
    \A k \in 1..Len(fl.calls) :
       /\ fl.calls[k].ev = "call" => fl.calls[k].during = NoRoutine
       /\ fl.calls[k].ev = "write" =>
             fl.calls[k].during.r2 # fl.calls[k].what.r0

\* a step of program_double_buffer that loads a page, and one that starts it
C24_Load ==
    (fl.at = "load_page_buffer" /\ fl'.at = "wait_for_completion") =>
       /\ fl.current_buf = (fl.i - 1) % 2
       /\ fl'.calls = Append(fl.calls,
                             Event("write", Registers("ram", PageBuffers[fl.current_buf + 1],
                                                      page_size, None), 0, fl.routine))
C24_Start ==
    (fl.at = "start_program_page" /\ fl'.at = "load_page_buffer") =>
       /\ fl.routine = NoRoutine
       /\ fl.r0 = 0
       /\ fl.calls[Len(fl.calls)].ev \in {"write", "done"}
       /\ fl'.calls = Append(fl.calls,
                             Event("call", Registers("program_page", fl.pages[fl.i], page_size,
                                                     PageBuffers[((fl.i - 1) % 2) + 1]),
                                   0, NoRoutine))
       /\ \E k \in 1..Len(fl.calls) :
             /\ fl.calls[k].ev = "write"
             /\ fl.calls[k].what.r0 = PageBuffers[((fl.i - 1) % 2) + 1]
             /\ \A j \in (k + 1)..Len(fl.calls) : fl.calls[j].ev = "done"

\* C24: in the double-buffer path the pages are processed in layout order
\* with the buffer index alternating 0, 1, 0, ...: each page is loaded into
\* buffer b, then the program_page started before has completed with result
\* 0, and only then program_page is started on buffer b; at most one
\* program_page is in flight and the host never writes into the buffer the
\* program_page in flight reads.
C24_DoubleBuffer == [] C24_OneInFlight /\ [][C24_Load /\ C24_Start]_vars

\* the host has loaded the second page into buffer 1 while program_page on
\* buffer 0 was in flight, and has started the second page
C24_Witness ==
    /\ WritesDuringRoutine # {}
    /\ \E k \in 1..Len(fl.calls) :
          /\ fl.calls[k].ev = "call"
          /\ fl.calls[k].what.r2 = PageBuffers[2]

DoubleBufferAt ==
    {"program_double_buffer", "load_page_buffer", "wait_for_completion",
     "start_program_page", "uninit"}
SimpleAt == {"program_simple", "program_page"}

\* C30: program takes the double-buffer path if and only if the algorithm
\* declares at least two page buffers and enable_double_buffering is true,
\* and the simple path otherwise; load_page_buffer and
\* start_program_page_with_buffer are only called with a buffer index smaller
\* than the number of page buffers (their assertions never fire); no
\* erase_sector routine is called when skip_erasing is set.
C30_Paths ==
    /\ fl.at \in DoubleBufferAt => (fl.page_buffers >= 2 /\ fl.enable_double_buffering)
    /\ fl.at \in SimpleAt => ~ (fl.page_buffers >= 2 /\ fl.enable_double_buffering)
    /\ ~ fl.panicked
    /\ fl.at # "panicked"
    /\ fl.skip_erasing => NumCalls("erase_sector") = 0

\* with skip_erasing set the double-buffer path has started a page on buffer 1
C30_Witness ==
    /\ fl.skip_erasing
    /\ fl.at \in DoubleBufferAt
    /\ \E k \in 1..Len(fl.calls) :
          /\ fl.calls[k].ev = "call"
          /\ fl.calls[k].what.r2 = PageBuffers[2]

-----------------------------------------------------------------------------
(* Claim about the target description, checked under SpecValidate          *)

\* what the claim asks of a variant
NamesExist(family, variant) ==
    \A i \in 1..Len(variant.flash_algorithms) :
       \E j \in 1..Len(family.flash_algorithms) :
          family.flash_algorithms[j] = variant.flash_algorithms[i]
SameFamily(variant) ==
    \/ \A i \in 1..Len(variant.cores) : variant.cores[i] = "Riscv"
    \/ \A i \in 1..Len(variant.cores) : variant.cores[i] \in {"Armv6m", "Armv7a"}
ValidVariant(family, variant) ==
    /\ NamesExist(family, variant)
    /\ Len(variant.cores) >= 1
    /\ SameFamily(variant)
Offending(family) ==
    { k \in 1..Len(family.variants) : ~ ValidVariant(family, family.variants[k]) }

\* C25: validate returns Ok if and only if, for every variant, each
\* flash-algorithm name it references is the name of an algorithm of the
\* family, the variant has at least one core and all of its cores belong to
\* the same architecture family; otherwise it returns an error naming the
\* first offending variant.
C25_Validate ==
    cf.result # NotValidated =>
       /\ cf.result.kind = "ok" <=> Offending(cf.family) = {}
       /\ cf.result.kind = "err" =>
             /\ cf.result.variant \in Offending(cf.family)
             /\ \A k \in Offending(cf.family) : cf.result.variant <= k

\* validate has named the second variant: the first is valid and has cores of
\* two ARM core types, the second is not valid
C25_Witness ==
    /\ cf.result.kind = "err"
    /\ cf.result.variant = 2
    /\ Len(cf.family.variants[1].cores) = 2
    /\ cf.family.variants[1].cores[1] # cf.family.variants[1].cores[2]

-----------------------------------------------------------------------------
(* reset_and_halt: the order of its accesses                               *)

\* the writes of a log to DEMCR, AIRCR and XPSR, in order
ResetWrites(log) ==
    SelectSeq(log, LAMBDA e : /\ e.acc \in {"write", "write_core_reg"}
                              /\ e.reg \in {"DEMCR", "AIRCR", "XPSR"})
\* the reads of XPSR of a log
XpsrReads(log) ==
    SelectSeq(log, LAMBDA e : e.acc = "read_core_reg" /\ e.reg = "XPSR")
\* the value DEMCR had when the log began
DemcrBefore(log) == log[1].value
IndexOf(log, P(_)) == CHOOSE i \in 1..Len(log) : P(log[i]) /\ \A j \in 1..(i - 1) : ~ P(log[j])
IsAircrWrite(e) == e.acc = "write" /\ e.reg = "AIRCR"
IsXpsrRead(e) == e.acc = "read_core_reg" /\ e.reg = "XPSR"
IsPoll(e, set) == e.acc = "read" /\ e.reg = "DHCSR" /\ Bit(e.value.hi, S_RESET_ST) = set

\* S_RESET_ST is polled after the write of AIRCR until it reads as clear,
\* before XPSR is read
PolledUntilClear(log) ==
    LET a == IndexOf(log, IsAircrWrite)
        x == IndexOf(log, IsXpsrRead)
    IN  \E k \in (a + 1)..(x - 1) :
           /\ IsPoll(log[k], FALSE)
           /\ \A j \in (a + 1)..(k - 1) : IsPoll(log[j], TRUE)

\* the writes reset_and_halt makes when it returns Ok
ResetSequence(log) ==
    LET w == ResetWrites(log)
        xpsr_value == XpsrReads(log)[1].value
        thumb == Bit(xpsr_value.hi, XPSR_THUMB)
    IN  /\ Len(XpsrReads(log)) = 1
        /\ Len(w) = IF thumb THEN 3 ELSE 4
        /\ w[1] = Access("write", "DEMCR", 0,
                         Word(DemcrBefore(log).hi,
                              DemcrBefore(log).lo - (DemcrBefore(log).lo % 2) + VC_CORERESET))
        /\ w[2] = Access("write", "AIRCR", 0, Word(VECTKEY, SYSRESETREQ))
        /\ ~ thumb => w[3] = Access("write_core_reg", "XPSR", 0,
                                    Word(xpsr_value.hi + XPSR_THUMB, xpsr_value.lo))
        /\ w[Len(w)].reg = "DEMCR"
        /\ ~ Bit(w[Len(w)].value.lo, VC_CORERESET)
        /\ PolledUntilClear(log)

\* C27: reset_and_halt sets VC_CORERESET in DEMCR, writes AIRCR with the
\* key 0x05FA and SYSRESETREQ, polls S_RESET_ST until it reads as clear,
\* writes XPSR with bit 24 set only if that bit read as 0, and clears
\* VC_CORERESET, in this order; when it returns Ok VC_CORERESET is clear
C27_ResetAndHalt ==
    (cm_op.name = "reset_and_halt" /\ cm_op.result.kind = "ok") =>
        /\ ResetSequence(cm.log)
        /\ ~ Bit(cm.demcr.lo, VC_CORERESET)
        /\ Bit(cm.xpsr.hi, XPSR_THUMB)

\* reset_and_halt returned Ok after it wrote XPSR, and the processor was
\* caught at the reset vector
C27_Witness ==
    /\ cm_op.name = "reset_and_halt"
    /\ cm_op.result.kind = "ok"
    /\ Len(ResetWrites(cm.log)) = 4
    /\ cm_op.result.status = CoreStatus_Halted("Exception")

-----------------------------------------------------------------------------
(* Polling loops                                                           *)

\* C26: every polling loop is bounded by a deadline, so no operation is
\* left polling forever: every call returns a value or an error
C26_Bounded == pc # "armv7a_polling"

\* after a reset the cached status is still Halted while the core runs;
\* read_core_reg writes its instruction to DBGITR and polls DBGDSCR for
\* InstrCompl_l, which never comes
C26_PollsForever ==
    /\ pc = "armv7a_polling"
    /\ a7_op.name = "read_core_reg"
    /\ is_halted(a7.current_state)
    /\ ~ a7.halted
    /\ \E i \in 1..Len(a7.writes) : a7.writes[i].reg = "DBGITR"

\* wait_for_core_halted has a deadline: halt returns, with Timeout when it
\* did not see the core halted in time
C26_HaltReturns == [][a7_op'.name = "halt" => a7_op'.result.kind # "hang"]_vars

-----------------------------------------------------------------------------
(* Instruction injection                                                   *)

ItrWrites(w) == { i \in 1..Len(w) : w[i].reg = "DBGITR" }
ItrenWrites(w) == { i \in 1..Len(w) : w[i].reg = "DBGDSCR" }

\* every write of DBGITR is made while the cached status is Halted, and
\* after ITREN was set
C28_Halted ==
    /\ \A i \in ItrWrites(a7.writes) : a7.writes[i].cached = "Halted"
    /\ ItrWrites(a7.writes) # {} => a7.itr_enabled

\* an operation sets ITREN only if it was not set by this handle and only
\* before its first write of DBGITR; a handle that has set it keeps it; a
\* read of a register that is not cached by a handle whose cached status is
\* not Halted fails with NotHalted
C28_Lazy ==
    LET w == a7'.writes
    IN  a7_op'.name # "target" =>
        /\ a7.itr_enabled => a7'.itr_enabled /\ ItrenWrites(w) = {}
        /\ (~ a7.itr_enabled /\ ItrWrites(w) = {}) => ItrenWrites(w) = {}
        /\ (~ a7.itr_enabled /\ ItrWrites(w) # {}) =>
              /\ Cardinality(ItrenWrites(w)) = 1
              /\ \A i \in ItrenWrites(w) :
                    /\ w[i].value = "itren"
                    /\ i + 1 \in ItrWrites(w)
                    /\ \A j \in ItrWrites(w) : i < j
        /\ (a7_op'.name = "read_core_reg" /\ ~ is_halted(a7.current_state)) =>
              /\ ItrWrites(w) = {}
              /\ a7_op'.result.kind = "ok" => a7'.register_cache = a7.register_cache
              /\ a7_op'.result.kind = "err" =>
                    a7_op'.result.err \in {"NotHalted", "InvalidRegisterNumber"}

\* C28: DBGITR is never written while the cached core status is not Halted,
\* the operation fails with NotHalted instead; every write of DBGITR of a
\* handle comes after a write of DBGDSCR with ITREN set, made once, before
\* the first injected instruction
C28_Inject == [] C28_Halted /\ [][C28_Lazy]_vars

\* a handle that has set ITREN before injects an instruction without
\* writing DBGDSCR again
C28_Witness ==
    /\ a7_op.name = "read_core_reg"
    /\ a7_op.result.kind = "ok"
    /\ Len(a7.writes) = 1
    /\ a7.writes[1].reg = "DBGITR"

-----------------------------------------------------------------------------
(* step and breakpoint unit N-1                                            *)

\* C29: when step returns, the value and the control register of
\* breakpoint unit N-1 hold the values they had before the step
C29_Restored ==
    [][a7_op'.name = "step" => (a7'.bvr = a7.bvr /\ a7'.bcr = a7.bcr)]_vars

\* the core did not halt within the 100 ms of step: step returned Timeout
\* and the unit is still the address mismatch breakpoint
C29_Left ==
    /\ a7_op.name = "step"
    /\ a7_op.result.kind = "err"
    /\ a7_op.result.err = "Timeout"
    /\ MismatchSet(a7)

\* a step that has resumed the core has programmed the unit before as an
\* enabled address mismatch breakpoint on the pc it read, and a step that
\* saw the core halt has restored the unit
C29_Programmed ==
    [][a7_op'.name = "step" =>
         LET w == a7'.writes
             bp == { i \in 1..Len(w) : w[i].reg = "DBGBCR" }
         IN  /\ \A i \in bp : w[i - 1].reg = "DBGBVR"
             /\ bp # {} =>
                  LET i == CHOOSE k \in bp : \A j \in bp : k <= j
                  IN  /\ w[i].value = Dbgbcr(BT_MISMATCH, TRUE)
                      /\ w[i - 1].value \in RegValues
             /\ (a7_op'.result.kind = "err" /\ a7_op'.result.err = "Timeout") =>
                  Cardinality(bp) = 1
             /\ Cardinality(bp) = 2 => (a7'.bvr = a7.bvr /\ a7'.bcr = a7.bcr)
             /\ a7_op'.result.kind = "ok" => Cardinality(bp) = 2]_vars

-----------------------------------------------------------------------------
(* write_core_reg and the write-back of run                                *)

\* C38: run writes back every register that write_core_reg accepted, the
\* CPSR at index 16 included, and never aborts the process
C38_NoPanic == pc # "armv7a_aborted"

\* write_core_reg accepted the CPSR and the next run reached the panic of
\* writeback_registers
C38_Aborted ==
    /\ pc = "armv7a_aborted"
    /\ a7_op.name = "run"
    /\ a7.register_cache[CPSR] \in { Entry(v, TRUE) : v \in RegValues }

\* write_core_reg accepts the CPSR, and a read of the CPSR alone leaves
\* nothing that run cannot write back
C38_Accepted ==
    [][/\ (a7_op'.name = "write_core_reg" /\ a7'.register_cache[CPSR] # a7.register_cache[CPSR]) =>
             /\ a7_op'.result.kind = "ok"
             /\ a7'.register_cache[CPSR].writeback
       /\ (a7_op'.name = "run" /\ ~ a7.register_cache[CPSR].writeback) =>
             a7_op'.result.kind # "panic"]_vars

-----------------------------------------------------------------------------
(* write_8 and read_8                                                      *)

\* C40: write_8(addr, data) stores data[i] at addr + i for every i below
\* the length of data and changes no other byte
C40_Contiguous ==
    [][a7_op'.name = "write_8" =>
         \A a \in Addresses :
            a7'.mem[a] = IF a \in a7_op'.address..(a7_op'.address + Len(a7_op'.data) - 1)
                         THEN a7_op'.data[a - a7_op'.address + 1]
                         ELSE a7.mem[a]]_vars

\* two bytes were written and read_8 of the same address and length does
\* not return them
C40_NotReadBack ==
    /\ a7_op.name = "read_8"
    /\ Len(a7_op.data) = 2
    /\ a7_op.result.kind = "ok"
    /\ Len(a7_op.result.value) = 2
    /\ \E address \in StartAddresses :
          /\ a7_op.address = address
          /\ a7.mem[address] = a7_op.data[1]
          /\ a7.mem[address + 4] = a7_op.data[2]
    /\ a7_op.result.value # a7_op.data

\* write_8 stores data[i] at addr + 4 * i and changes no other byte; read_8
\* returns the bytes at addr + i
C40_Stride ==
    [][/\ a7_op'.name = "write_8" =>
            \A a \in Addresses :
               a7'.mem[a] = IF \E i \in 0..(Len(a7_op'.data) - 1) : a = a7_op'.address + 4 * i
                            THEN a7_op'.data[(a - a7_op'.address) \div 4 + 1]
                            ELSE a7.mem[a]
       /\ a7_op'.name = "read_8" =>
            /\ a7_op'.result.kind = "ok"
            /\ a7'.mem = a7.mem
            /\ \A i \in 1..Len(a7_op'.result.value) :
                  a7_op'.result.value[i] = a7.mem[a7_op'.address + i - 1]]_vars

-----------------------------------------------------------------------------
(* Progress events                                                         *)

ProgressEvents(ev) == { k \in 1..Len(fl.progress) : fl.progress[k].ev = ev }

\* program_page for the page of the k-th progress event has completed with
\* result 0 before the event was given
ProgrammedBefore(k) ==
    \E j \in 1..fl.progress[k].calls :
       /\ fl.calls[j].ev = "done"
       /\ fl.calls[j].what.name = "program_page"
       /\ fl.calls[j].what.r0 = fl.progress[k].address
       /\ fl.calls[j].code = 0

\* every page_programmed comes after its page was programmed
PageProgrammedAfter == \A k \in ProgressEvents("page_programmed") : ProgrammedBefore(k)

\* when program has returned, every started event has exactly one finished
\* or failed event after it
Paired(started, finished, failed) ==
    /\ Cardinality(ProgressEvents(started)) <= 1
    /\ \A k \in ProgressEvents(started) :
          Cardinality({ j \in ProgressEvents(finished) \cup ProgressEvents(failed) : j > k }) = 1
    /\ \A j \in ProgressEvents(finished) \cup ProgressEvents(failed) :
          \E k \in ProgressEvents(started) : k < j
EventsPaired ==
    fl.at = "returned" =>
       /\ Paired("started_erasing", "finished_erasing", "failed_erasing")
       /\ Paired("started_programming", "finished_programming", "failed_programming")

\* C39: in both programming paths page_programmed for a page is given only
\* after program_page for that page has completed with result 0, and every
\* started_erasing and started_programming is followed by exactly one of
\* finished and failed before program returns
C39_Progress == PageProgrammedAfter /\ EventsPaired

\* program_double_buffer has reported the first page as programmed and
\* program_page was not called yet
C39_Early ==
    /\ fl.at = "start_program_page"
    /\ fl.i = 1
    /\ ProgressEvents("page_programmed") # {}
    /\ \A j \in 1..Len(fl.calls) :
          fl.calls[j].ev = "call" => fl.calls[j].what.name # "program_page"

\* program_simple reports a page after its program_page returned 0, and
\* the started events are paired in both paths
C39_Simple ==
    /\ EventsPaired
    /\ ProgramPath(fl) = "program_simple" => PageProgrammedAfter

-----------------------------------------------------------------------------
(* debug_port_start: the order of its accesses                             *)

DpWrites(log) == SelectSeq(log, LAMBDA e : e.acc = "write")
DpWrite(reg, value) == Access("write", reg, 0, value)
\* CTRL/STAT as the first read of a log saw it
FirstCtrl(log) == SelectSeq(log, LAMBDA e : e.acc = "read")[1].value

\* C31: every successful debug_port_start writes ABORT with the sticky
\* flags cleared, writes SELECT = 0, reads CTRL/STAT, writes the power-up
\* requests and polls for both acks only if the port was not powered up,
\* and at last writes CTRL/STAT with mask_lane = 1111, whether or not the
\* port was powered up before
C31_Sequence ==
    (cm_op.name = "debug_port_start" /\ cm_op.result.kind = "ok") =>
        LET w == DpWrites(cm.log)
        IN  /\ cm.log[1] = DpWrite("ABORT", Abort_clear_all)
            /\ cm.log[2] = DpWrite("SELECT", 0)
            /\ cm.log[3].acc = "read"
            /\ w = IF powered_up(FirstCtrl(cm.log))
                   THEN <<DpWrite("ABORT", Abort_clear_all), DpWrite("SELECT", 0),
                          DpWrite("CTRL", Ctrl_power_up(ALL_LANES))>>
                   ELSE <<DpWrite("ABORT", Abort_clear_all), DpWrite("SELECT", 0),
                          DpWrite("CTRL", Ctrl_power_up(0)),
                          DpWrite("CTRL", Ctrl_power_up(ALL_LANES))>>

\* debug_port_start returned Ok on a port that was powered up and whose
\* mask_lane is not 1111: CTRL/STAT was not written
C31_NoMaskLane ==
    /\ cm_op.name = "debug_port_start"
    /\ cm_op.result.kind = "ok"
    /\ powered_up(FirstCtrl(cm.log))
    /\ Len(DpWrites(cm.log)) = 2
    /\ cm.mask_lane # ALL_LANES

\* on a port that is not powered up the sequence is as stated, and the
\* poll without both acks ends in Timeout
C31_PoweredDown ==
    (cm_op.name = "debug_port_start" /\ ~ powered_up(FirstCtrl(cm.log))) =>
        LET w == DpWrites(cm.log)
            polls == SelectSeq(SubSeq(cm.log, 5, Len(cm.log)),
                               LAMBDA e : e.acc = "read" /\ ~ powered_up(e.value))
        IN  /\ cm.log[1] = DpWrite("ABORT", Abort_clear_all)
            /\ cm.log[2] = DpWrite("SELECT", 0)
            /\ cm.log[3].acc = "read"
            /\ cm.log[4] = DpWrite("CTRL", Ctrl_power_up(0))
            /\ cm_op.result.kind = "ok" =>
                  /\ w[Len(w)] = DpWrite("CTRL", Ctrl_power_up(ALL_LANES))
                  /\ Len(w) = 4
                  /\ cm.mask_lane = ALL_LANES
            /\ (cm_op.result.kind = "err" /\ cm_op.result.err = "Timeout") =>
                  /\ Len(w) = 3
                  /\ Len(polls) = cm_op.arg
                  /\ ~ powered_up(CtrlValue(cm))

-----------------------------------------------------------------------------
(* JTAG: what is shifted for a transfer                                    *)

JtagDone == pc = "batch_done" /\ cm_op.name = "perform_transfers_jtag"
\* the scan made for the k-th physical transfer
Scan(k) == cm.scans[k]
\* the fields of a 35-bit DR value
DrData(dr) == dr \div 8
DrA32(dr) == (dr \div 2) % 4
DrRnW(dr) == dr % 2
\* the data value a transfer carries when it is sent
SentValue(t) == IF t.direction = "Write" THEN t.value ELSE 0
\* the IR value named for a transfer
IrOf(t) ==
    IF is_abort(t) THEN 8 ELSE IF t.port = "DP" THEN 10 ELSE 11

\* C34: every JTAG transfer is sent as a 4-bit IR, 0xA for a DP access,
\* 0xB for an AP access, 0x8 for a write to DP ABORT, followed by a 35-bit
\* DR with the data value in bits [34:3], A[3:2] in bits [2:1] and RnW in
\* bit [0], for every port, address, direction and value, writes to ABORT
\* included
C34_Layout ==
    JtagDone =>
        \A k \in DOMAIN final_transfers :
            LET t == final_transfers[k]
            IN  /\ Scan(k).ir = IrOf(t)
                /\ Scan(k).len = 35
                /\ DrData(Scan(k).dr) = SentValue(t)
                /\ DrA32(Scan(k).dr) = (t.address \div 4) % 4
                /\ DrRnW(Scan(k).dr) = IF t.direction = "Read" THEN 1 ELSE 0

\* a write of 7 to ABORT went out with 1 in the data bits
C34_AbortPayload ==
    /\ JtagDone
    /\ \E k \in DOMAIN final_transfers :
          /\ is_abort(final_transfers[k])
          /\ final_transfers[k].value = WriteValue
          /\ Scan(k).ir = 8
          /\ DrData(Scan(k).dr) = 1

\* the layout holds for every transfer but the writes to ABORT, which are
\* sent as IR 0x8 with the DR value 0x8 whatever their value
C34_FixedAbort ==
    JtagDone =>
        \A k \in DOMAIN final_transfers :
            LET t == final_transfers[k]
            IN  /\ Scan(k).ir = IrOf(t)
                /\ Scan(k).len = 35
                /\ is_abort(t) => Scan(k).dr = 8
                /\ ~ is_abort(t) =>
                      /\ DrData(Scan(k).dr) = SentValue(t)
                      /\ DrA32(Scan(k).dr) = (t.address \div 4) % 4
                      /\ DrRnW(Scan(k).dr) = IF t.direction = "Read" THEN 1 ELSE 0

-----------------------------------------------------------------------------
(* JTAG: where the status of a transfer comes from                         *)

\* the status named by the low three bits of a response
JtagStatusOf(captured) ==
    CASE captured % 8 = 1 -> "WaitResponse"
      [] captured % 8 = 2 -> "Ok"
      [] OTHER -> "NoAcknowledge"
\* the scans made after the last transfer of the batch
ExtraScans == (Len(final_transfers) + 1)..Len(cm.scans)
\* STICKYERR was found: the only write among the extra scans clears it
StickyFound == \E k \in ExtraScans : DrRnW(Scan(k).dr) = 0
IsRdBuffScan(s) == s.ir = 10 /\ s.dr = 7
\* the k-th transfer has the status and value of the response in scan k + 1
FromNext(k) ==
    LET t == final_transfers[k]
    IN  /\ k + 1 \in DOMAIN cm.scans
        /\ t.status = JtagStatusOf(Scan(k + 1).captured)
        /\ t.direction = "Read" =>
              t.value = IF t.status = "Ok" THEN Scan(k + 1).captured \div 8 ELSE 0

\* C32: in JTAG mode the status, and for reads the value, of physical
\* transfer N is taken from the response shifted in during transfer N + 1
\* (001 WAIT, 010 OK, anything else no acknowledge), and after the last
\* transfer of the batch a read of DP RDBUFF is always issued to collect
\* the status of that transfer
C32_NextResponse ==
    (JtagDone /\ ~ StickyFound) =>
        /\ \A k \in DOMAIN final_transfers : FromNext(k)
        /\ Len(final_transfers) + 1 \in DOMAIN cm.scans
        /\ IsRdBuffScan(Scan(Len(final_transfers) + 1))

\* a transfer that is neither a write to ABORT nor a read of RDBUFF was
\* answered WAIT in the scan of the write to ABORT after it, and is Ok
C32_WaitLost ==
    /\ JtagDone
    /\ \E k \in DOMAIN final_transfers :
          /\ ~ is_abort(final_transfers[k]) /\ ~ is_rdbuff(final_transfers[k])
          /\ k + 1 \in DOMAIN final_transfers
          /\ is_abort(final_transfers[k + 1])
          /\ JtagStatusOf(Scan(k + 1).captured) = "WaitResponse"
          /\ final_transfers[k].status = "Ok"
    /\ \A i \in DOMAIN transfers : transfers[i].status = "Ok"

\* what the code does: writes to ABORT and reads of RDBUFF are Ok without a
\* look at any response, a transfer followed by a write to ABORT is Ok, the
\* others take the response of the next scan; the read of RDBUFF after the
\* batch is issued unless the last transfer is one of the two
C32_Collected ==
    (JtagDone /\ ~ StickyFound) =>
        LET n == Len(final_transfers)
        IN  /\ \A k \in 1..n :
                  LET t == final_transfers[k]
                  IN  IF is_abort(t) \/ is_rdbuff(t) THEN t.status = "Ok"
                      ELSE IF k < n /\ is_abort(final_transfers[k + 1])
                      THEN t.status = "Ok" /\ (t.direction = "Read" => t.value = 0)
                      ELSE FromNext(k)
            /\ (is_abort(final_transfers[n]) => Len(cm.scans) = n)
            /\ (is_rdbuff(final_transfers[n]) => Len(cm.scans) = n + 2)
            /\ (~ is_abort(final_transfers[n]) /\ ~ is_rdbuff(final_transfers[n])) =>
                  Len(cm.scans) = n + 3 /\ IsRdBuffScan(Scan(n + 1))

-----------------------------------------------------------------------------
(* JTAG: the check of CTRL/STAT after a transfer set                       *)

IsCtrlReadScan(s) == s.ir = 10 /\ s.dr = 3
\* the index of the scan that reads CTRL/STAT after a batch whose last
\* transfer is not a write to ABORT
CtrlScan ==
    IF is_rdbuff(final_transfers[Len(final_transfers)])
    THEN Len(final_transfers) + 1 ELSE Len(final_transfers) + 2
\* CTRL/STAT as it came back with the read of RDBUFF after it
CtrlRead == Scan(CtrlScan + 1).captured \div 8
\* the status of the k-th transfer before the check
Unchecked(k) ==
    LET t == final_transfers[k]
    IN  IF is_abort(t) \/ is_rdbuff(t) THEN "Ok"
        ELSE IF k < Len(final_transfers) /\ is_abort(final_transfers[k + 1]) THEN "Ok"
        ELSE JtagStatusOf(Scan(k + 1).captured)
\* the check as the code makes it
Checked ==
    /\ CtrlScan + 1 \in DOMAIN cm.scans
    /\ IsCtrlReadScan(Scan(CtrlScan))
    /\ IsRdBuffScan(Scan(CtrlScan + 1))
    /\ IF Ctrl_sticky_err(CtrlRead)
       THEN /\ Len(cm.scans) = CtrlScan + 2
            /\ Scan(CtrlScan + 2).ir = 10
            /\ Scan(CtrlScan + 2).dr = CtrlRead * 8 + 2
            /\ \A k \in DOMAIN final_transfers :
                  final_transfers[k].status =
                      IF Unchecked(k) = "Ok" THEN "FaultResponse" ELSE Unchecked(k)
            /\ \A i \in DOMAIN transfers : transfers[i].status # "Ok"
       ELSE /\ Len(cm.scans) = CtrlScan + 1
            /\ \A k \in DOMAIN final_transfers : final_transfers[k].status = Unchecked(k)

\* C33: after any JTAG transfer set CTRL/STAT is read; with STICKYERR set
\* the flag is cleared and every transfer of the set that was marked OK is
\* reported as FaultResponse, the transfers marked WAIT or no acknowledge
\* keeping their status; with STICKYERR clear no status is changed
C33_StickyCheck == JtagDone => Checked

\* a set that ends with a write to ABORT returned with no read of
\* CTRL/STAT, its transfers Ok whatever the target answered
C33_NoCheck ==
    /\ JtagDone
    /\ is_abort(final_transfers[Len(final_transfers)])
    /\ Len(final_transfers) > 1
    /\ \A k \in DOMAIN cm.scans : ~ IsCtrlReadScan(Scan(k))
    /\ \E k \in DOMAIN cm.scans : JtagStatusOf(Scan(k).captured) # "Ok"
    /\ \A i \in DOMAIN transfers : transfers[i].status = "Ok"

\* the check is made after every set that does not end with a write to
\* ABORT, and after no other
C33_UnlessAbort ==
    JtagDone =>
        IF is_abort(final_transfers[Len(final_transfers)])
        THEN Len(cm.scans) = Len(final_transfers)
        ELSE Checked

-----------------------------------------------------------------------------
(* SWD: which acknowledge a logical transfer reports                       *)

\* the physical transfer pushed for the i-th logical transfer
Own(i) == final_transfers[pushed_at[i] + 1]
\* the physical transfer its result is taken from
Source(i) == final_transfers[result_indices[i] + 1]

\* C36: when a physical transfer of an SWD batch is answered WAIT, FAULT
\* or not at all, at least one logical transfer of the batch is Failed
\* after perform_transfers, and a logical transfer is Ok only if its own
\* physical transfer was acknowledged OK
C36_OwnAck ==
    BatchDone =>
        /\ (\E k \in DOMAIN final_transfers : final_transfers[k].status # "Ok") =>
              \E i \in DOMAIN transfers : transfers[i].status # "Ok"
        /\ \A i \in DOMAIN transfers :
              transfers[i].status = "Ok" => Own(i).status = "Ok"

\* a write was answered WAIT, the read of RDBUFF after it OK, and every
\* logical transfer of the batch is Ok
C36_Masked ==
    /\ BatchDone
    /\ \A i \in DOMAIN transfers : transfers[i].status = "Ok"
    /\ \E i \in DOMAIN transfers :
          /\ is_write(transfers[i])
          /\ Own(i).status = "WaitResponse"
          /\ Source(i).status = "Ok"
          /\ is_rdbuff(Source(i))

\* a logical transfer reports the acknowledge of the physical transfer its
\* result index names, its own or the one after it
C36_SourceAck ==
    BatchDone =>
        \A i \in DOMAIN transfers :
            /\ transfers[i].status = Source(i).status
            /\ result_indices[i] \in {pushed_at[i], pushed_at[i] + 1}

-----------------------------------------------------------------------------
(* perform_transfers: every logical transfer gets a result                 *)

\* C37: after perform_transfers returned Ok, over SWD or over JTAG, for a
\* logical batch that is not empty, the result index of every logical
\* transfer names a physical transfer that exists and every logical
\* transfer is Ok or Failed, never Pending
C37_NoPending ==
    BatchDone =>
        /\ Len(result_indices) = Len(transfers)
        /\ \A i \in DOMAIN transfers :
              /\ result_indices[i] + 1 \in DOMAIN final_transfers
              /\ transfers[i].status \in {"Ok"} \cup Failures
              /\ transfers[i].status = Source(i).status
        /\ \A k \in DOMAIN final_transfers : final_transfers[k].status # "Pending"

\* a batch that ends with a write was performed over SWD and over JTAG:
\* over SWD its result index names the read of RDBUFF appended last
C37_Witness ==
    /\ BatchDone
    /\ cm_op.name = "perform_transfers_swd"
    /\ Len(transfers) = MaxBatch
    /\ is_write(transfers[MaxBatch])
    /\ ~ is_abort(transfers[MaxBatch])
    /\ result_indices[MaxBatch] + 1 = Len(final_transfers)
    /\ transfers[MaxBatch].status = "WaitResponse"

-----------------------------------------------------------------------------
(* SWD: the bits of a transfer                                             *)

SwdIoDone == pc = "swd_io_done"
\* the bits and the direction bits of the n-th transfer without the idle
\* cycles after it
BitsOfTransfer(n) ==
    SubSeq(cm.io, cm.starts[n] + 1,
           (IF n < Len(cm.starts) THEN cm.starts[n + 1] ELSE Len(cm.io))
               - final_transfers[n].idle_cycles_after)
DrivenOfTransfer(n) ==
    SubSeq(cm.direction, cm.starts[n] + 1,
           (IF n < Len(cm.starts) THEN cm.starts[n + 1] ELSE Len(cm.io))
               - final_transfers[n].idle_cycles_after)
\* number of ones among the bits from..to
Ones(bits, from, to) == Cardinality({i \in from..to : bits[i]})
\* the first fourteen bits: idle, request, turnaround, acknowledge
Header(t, bits, driven) ==
    /\ Len(bits) >= 14
    /\ bits[1] = FALSE /\ bits[2] = FALSE
    /\ bits[3] = TRUE
    /\ bits[4] = (t.port = "AP")
    /\ bits[5] = (t.direction = "Read")
    /\ bits[6] = ((t.address \div 4) % 2 = 1)
    /\ bits[7] = ((t.address \div 8) % 2 = 1)
    /\ Ones(bits, 4, 8) % 2 = 0
    /\ bits[9] = FALSE
    /\ bits[10] = TRUE
    /\ \A i \in 1..10 : driven[i] = OUTPUT
    /\ \A i \in 11..14 : driven[i] = INPUT
\* a write with trn turnaround bits after the acknowledge
WriteLayout(t, bits, driven, trn) ==
    /\ Len(bits) = 14 + trn + 32 + 1
    /\ \A i \in 15..(14 + trn) : driven[i] = INPUT
    /\ \A i \in (15 + trn)..Len(bits) : driven[i] = OUTPUT
    /\ bits_to_byte(SubSeq(bits, 15 + trn, 14 + trn + 32)) = t.value
    /\ Ones(bits, 15 + trn, Len(bits)) % 2 = 0
ReadLayout(bits, driven) ==
    /\ Len(bits) = 14 + 32 + 1 + 1
    /\ \A i \in 15..Len(bits) : driven[i] = INPUT
\* the count of bits and the offsets of the parse
Counted(n) ==
    /\ Len(BitsOfTransfer(n)) = response_length(final_transfers[n].direction)
    /\ cm.read_index[n] = cm.starts[n]

\* C35: each request is 2 idle bits, 8 request bits (start 1, APnDP, RnW,
\* A[2], A[3], even parity, stop 0, park 1), 1 turnaround bit, 3 ACK bits,
\* then for a write 2 turnaround bits, 32 data bits LSB first and the data
\* parity, for a read 32 data bits, parity and 1 turnaround bit; the probe
\* drives the line exactly on the idle, request and write data and parity
\* bits; the bit count of each transfer is response_length(direction), so
\* the offset of the n-th parse is the start of the n-th transfer
C35_Serialized ==
    SwdIoDone =>
        \A n \in DOMAIN final_transfers :
            LET t == final_transfers[n]
            IN  /\ Header(t, BitsOfTransfer(n), DrivenOfTransfer(n))
                /\ IF t.direction = "Write"
                   THEN WriteLayout(t, BitsOfTransfer(n), DrivenOfTransfer(n), 2)
                   ELSE ReadLayout(BitsOfTransfer(n), DrivenOfTransfer(n))
                /\ Counted(n)

\* a write went out with 48 bits, the first data bit in the place of the
\* second turnaround bit
C35_OneTurnaround ==
    /\ SwdIoDone
    /\ \E n \in DOMAIN final_transfers :
          /\ final_transfers[n].direction = "Write"
          /\ Len(BitsOfTransfer(n)) = 48
          /\ DrivenOfTransfer(n)[15] = INPUT
          /\ DrivenOfTransfer(n)[16] = OUTPUT
          /\ BitsOfTransfer(n)[16] = (final_transfers[n].value % 2 = 1)

\* the layout with one turnaround bit after the acknowledge of a write
C35_AsBuilt ==
    SwdIoDone =>
        \A n \in DOMAIN final_transfers :
            LET t == final_transfers[n]
            IN  /\ Header(t, BitsOfTransfer(n), DrivenOfTransfer(n))
                /\ IF t.direction = "Write"
                   THEN WriteLayout(t, BitsOfTransfer(n), DrivenOfTransfer(n), 1)
                   ELSE ReadLayout(BitsOfTransfer(n), DrivenOfTransfer(n))
                /\ Counted(n)
                /\ \A i \in 1..t.idle_cycles_after :
                      /\ cm.direction[cm.starts[n] + 48 + i] = OUTPUT
                      /\ cm.io[cm.starts[n] + 48 + i] = FALSE

====
